---------------------------- MODULE Spec2Model ----------------------------
(***************************************************************************)
(* A model of the synchronization and historical-aggregation engine of     *)
(* the workers-sdk CI analyzer (src/workers/app.ts): the daily CI          *)
(* snapshots with their date index and backfill, and the mirror of GitHub  *)
(* issues and pull requests.                                               *)
(*                                                                         *)
(* Time is counted in minutes since an arbitrary epoch; the worker runs in *)
(* UTC, so local-time Date setters act on UTC fields.  A calendar date     *)
(* (the YYYY-MM-DD strings of the source) is the number of the day.        *)
(*                                                                         *)
(* The counts of the source (180 retained dates, 30 days of initial        *)
(* lookback, six months of horizon, pages of 100 items) are scaled down so *)
(* that model checking covers whole backfills and syncs; their order       *)
(* 30 < 180 < six months and the equality of the page size and the stop    *)
(* threshold are kept.  Every await of the source on the store or on       *)
(* upstream is a step of its own, so that invocations interleave there.    *)
(***************************************************************************)
EXTENDS Integers, Sequences, FiniteSets, TLC

(***************************************************************************)
(* Bounds of the model.                                                    *)
(***************************************************************************)
\* dates.slice(-180): the number of dates the index keeps (180 in the source).
IndexCap == 3
\* start.setDate(start.getDate() - 30): lookback of an empty index (30 in the source).
EmptyLookbackDays == 2
\* How many upstream requests fail in one run of a model.
MaxFailures == 1
\* first: 100: the nodes of a GraphQL page (100 in the source).
PageSize == 2
\* How many issues and pull requests upstream comes to hold.
MaxItems == 3
\* How many times upstream updates an item.
MaxUpdates == 1
\* How many times the clock of the item model advances.
MaxTicks == 2
\* recentFailures.slice(-5): the failures kept per job (5 in the source).
RecentFailuresKept == 2
\* sevenDaysAgo: the days of the rolling window (7 in the source).
RollingWindowDays == 2
\* How many workflow runs upstream lists.
MaxRuns == 3
\* slice(0, 100): the issues a triage list holds (100 in the source).
TriageLimit == 2
\* slice(0, 100): the pull requests a health report lists (100 in the source).
PRHealthLimit == 2
\* How many commits upstream lists for a directory.
MaxCommits == 5

(***************************************************************************)
(* Program constants.                                                      *)
(***************************************************************************)
\* 24 * 60 * 60 * 1000 ms, in minutes.
MinutesPerDay == 1440

\* sixMonthsAgo.setMonth(getMonth() - 6) moves back 181 to 184 days, always
\* more days than the index keeps; the model takes the least such count.
SixMonthsDays == IndexCap + 1

\* A key the store does not hold (get returns null), and a stored value.
NoValue == [exists |-> FALSE]

Procs == {1, 2}

VARIABLES
    now,        \* the wall clock, in minutes
    failures,   \* how many upstream requests failed
    noRuns,     \* upstream: the days whose run query returns no workflow runs
    runs,       \* upstream: the workflow runs of the branch, newest first
    kvIndex,    \* KV "date-index": NoValue or { dates: [...] }
    kvDaily,    \* KV "daily:<date>": date -> snapshot, for the stored dates
    kvCurrent,  \* KV "ci-data": NoValue or the current snapshot
    ci,         \* the CI handler invocations: Procs -> record
    upstream,   \* GitHub: the issues and pull requests, by number
    kvItems,    \* KV "github-items": NoValue or the item mirror
    kvMeta,     \* KV "github-items-meta": NoValue or the SyncMetadata
    sy          \* the syncGitHubItems invocations: Procs -> record

vars == <<now, failures, noRuns, runs, kvIndex, kvDaily, kvCurrent, ci,
          upstream, kvItems, kvMeta, sy>>

ciVars == <<noRuns, runs, kvIndex, kvDaily, kvCurrent, ci>>

itemVars == <<upstream, kvItems, kvMeta, sy>>

(***************************************************************************)
(* Dates.                                                                  *)
(***************************************************************************)
\* date.toISOString().split('T')[0]
DateStr(t) == t \div MinutesPerDay

\* new Date("YYYY-MM-DD"): midnight UTC of the day
ParseDate(d) == d * MinutesPerDay

\* date.setDate(date.getDate() + n), and +/- n * 24 * 60 * 60 * 1000
AddDays(t, n) == t + n * MinutesPerDay

\* today.setHours(0, 0, 0, 0)
StartOfDay(t) == (t \div MinutesPerDay) * MinutesPerDay

\* The first day of the model's calendar: early enough days stay positive.
StartDay == SixMonthsDays + 2

\* The days backfill can ask upstream for: from six months ago to today.
Lookback == (StartDay - SixMonthsDays) .. StartDay

(***************************************************************************)
(* Lists.                                                                  *)
(***************************************************************************)
\* Array.prototype.includes
Includes(s, x) == \E i \in 1..Len(s) : s[i] = x

\* Array.prototype.slice(-n)
SliceLast(s, n) == IF Len(s) <= n THEN s ELSE SubSeq(s, Len(s) - n + 1, Len(s))

\* Array.prototype.sort() on YYYY-MM-DD strings: chronological order
SortDates(s) == SortSeq(s, LAMBDA a, b : a < b)

\* indexData?.dates || []
DatesOf(indexData) == IF indexData.exists THEN indexData.dates ELSE <<>>

\* JSON.stringify({ dates })
IndexData(dates) == [exists |-> TRUE, dates |-> dates]

Range(s) == {s[i] : i \in 1..Len(s)}

\* The elements of a set of numbers, in ascending order.
RECURSIVE SeqOfSet(_)
SeqOfSet(S) ==
    IF S = {} THEN <<>>
    ELSE LET m == CHOOSE x \in S : \A y \in S : x <= y
         IN  <<m>> \o SeqOfSet(S \ {m})


(***************************************************************************)
(* The date index.                                                         *)
(***************************************************************************)
\* fetchAndStoreCIData: dates.push(dateKey); dates.sort(); dates.slice(-180)
IndexWithToday(dates, dateKey) ==
    SliceLast(SortDates(Append(dates, dateKey)), IndexCap)

\* A variant of addDateToIndex that does not sort the list.
IndexWithDateUnsorted(dates, dateStr) ==
    SliceLast(Append(dates, dateStr), IndexCap)

\* addDateToIndex: dates.push(dateStr); dates.sort(); dates.slice(-180)
IndexWithDate(dates, dateStr) ==
    SliceLast(SortDates(Append(dates, dateStr)), IndexCap)

(***************************************************************************)
(* getMissingDateRanges.  t1 and t2 are two successive readings of the     *)
(* clock (new Date()), t1 <= t2.                                           *)
(***************************************************************************)
\* A variant of the loop whose gaps end on the later known date.
RECURSIVE InternalGapsToNext(_, _)
InternalGapsToNext(dates, i) ==
    IF i >= Len(dates) THEN <<>>
    ELSE LET current == dates[i]
             next == dates[i + 1]
         IN  (IF next - current > 1 * MinutesPerDay
              THEN << [start |-> current + MinutesPerDay, end |-> next] >>
              ELSE <<>>)
             \o InternalGapsToNext(dates, i + 1)

\* the loop over consecutive known dates
RECURSIVE InternalGaps(_, _)
InternalGaps(dates, i) ==
    IF i >= Len(dates) THEN <<>>
    ELSE LET current == dates[i]
             next == dates[i + 1]
         IN  (IF next - current > 1 * MinutesPerDay
              THEN << [start |-> current + MinutesPerDay,
                       end |-> next - MinutesPerDay] >>
              ELSE <<>>)
             \o InternalGaps(dates, i + 1)

\* A variant of the leading gap that ends on the first known date.
LeadingGapToFirst(dates, t) ==
    LET sixMonthsAgo == AddDays(t, -SixMonthsDays)
    IN  IF dates[1] > sixMonthsAgo
        THEN << [start |-> sixMonthsAgo, end |-> dates[1]] >>
        ELSE <<>>

\* Check for gap from 6 months ago to first date
LeadingGap(dates, t) ==
    LET sixMonthsAgo == AddDays(t, -SixMonthsDays)
    IN  IF dates[1] > sixMonthsAgo
        THEN << [start |-> sixMonthsAgo, end |-> dates[1] - MinutesPerDay] >>
        ELSE <<>>

\* A variant of the trailing gap that ends today instead of yesterday.
TrailingGapToToday(dates, t) ==
    LET today == StartOfDay(t)
        lastDate == dates[Len(dates)]
    IN  IF today - lastDate > 1 * MinutesPerDay
        THEN << [start |-> lastDate + MinutesPerDay, end |-> today] >>
        ELSE <<>>

TrailingGap(dates, t) ==
    LET today == StartOfDay(t)
        lastDate == dates[Len(dates)]
    IN  IF today - lastDate > 1 * MinutesPerDay
        THEN << [start |-> lastDate + MinutesPerDay,
                 end |-> today - MinutesPerDay] >>
        ELSE <<>>

\* A variant of getMissingDateRanges whose lookback for an empty index is the
\* six months of the horizon.
getMissingDateRangesFromHorizon(indexData, t1, t2) ==
    IF ~indexData.exists \/ Len(indexData.dates) = 0
    THEN << [start |-> AddDays(t2, -SixMonthsDays), end |-> t1] >>
    ELSE LET dates == SortDates([i \in 1..Len(indexData.dates) |->
                                   ParseDate(indexData.dates[i])])
         IN  LeadingGap(dates, t1) \o InternalGaps(dates, 1) \o TrailingGap(dates, t2)

getMissingDateRanges(indexData, t1, t2) ==
    IF ~indexData.exists \/ Len(indexData.dates) = 0
    THEN << [start |-> AddDays(t2, -EmptyLookbackDays), end |-> t1] >>
    ELSE LET dates == SortDates([i \in 1..Len(indexData.dates) |->
                                   ParseDate(indexData.dates[i])])
         IN  LeadingGap(dates, t1) \o InternalGaps(dates, 1) \o TrailingGap(dates, t2)

(***************************************************************************)
(* The key-value store.                                                    *)
(***************************************************************************)
\* env.CI_DATA_KV.put(`daily:${date}`, ...)
PutDaily(daily, date, snapshot) ==
    [d \in DOMAIN daily \cup {date} |-> IF d = date THEN snapshot ELSE daily[d]]

NoDaily == <<>>

(***************************************************************************)
(* Job statistics.                                                         *)
(*                                                                         *)
(* A workflow run of upstream is [id, created_at, jobs_ok, jobs]: jobs_ok  *)
(* tells whether the request to its jobs_url is answered with the job      *)
(* list (it fails or is non-OK otherwise), jobs is that list, each job     *)
(* [name, conclusion].  A failure rate is kept in hundredths of a percent, *)
(* rounded down.                                                           *)
(***************************************************************************)
\* The conclusions of a job the model draws from: the four the source tests
\* for, and one of the others upstream can return.
Conclusions == {"success", "failure", "cancelled", "skipped", "timed_out"}

JobNames == {"build", "test"}

\* processedData.jobStats[jobName] = { totalRuns: 0, failures: 0, ... }
NewJobStatistic ==
    [totalRuns |-> 0, failures |-> 0, successes |-> 0, failureRate |-> 0,
     last7Days |-> [totalRuns |-> 0, failures |-> 0, successes |-> 0,
                    failureRate |-> 0],
     recentFailures |-> <<>>, instances |-> <<>>]

\* instances.push({ jobId: job.id, runId: run.id, conclusion: .., createdAt: .. })
Instance(run, job) ==
    [jobId |-> job.id, runId |-> run.id, conclusion |-> job.conclusion,
     createdAt |-> run.created_at]

\* recentFailures.push({ runId: run.id, createdAt: run.created_at, ... })
FailureEntry(run) == [runId |-> run.id, createdAt |-> run.created_at]

\* The body of for (const job of jobs) for a job that is not skipped.
CountJob(stat, run, job, isInLast7Days) ==
    LET failed == job.conclusion = "failure"
        succeeded == job.conclusion = "success"
    IN  [stat EXCEPT
           !.totalRuns = @ + 1,
           !.failures = IF failed THEN @ + 1 ELSE @,
           !.successes = IF succeeded THEN @ + 1 ELSE @,
           !.recentFailures = IF failed THEN Append(@, FailureEntry(run)) ELSE @,
           !.instances = Append(@, Instance(run, job)),
           !.last7Days =
               IF isInLast7Days
               THEN [@ EXCEPT !.totalRuns = @ + 1,
                              !.failures = IF failed THEN @ + 1 ELSE @,
                              !.successes = IF succeeded THEN @ + 1 ELSE @]
               ELSE @]

\* jobStats with the entry of name set to stat
WithJob(jobStats, name, stat) ==
    [n \in DOMAIN jobStats \cup {name} |->
        IF n = name THEN stat ELSE jobStats[n]]

\* for (const job of jobs): cancelled and skipped jobs are passed over
RECURSIVE ProcessJobs(_, _, _, _)
ProcessJobs(jobStats, run, j, isInLast7Days) ==
    IF j > Len(run.jobs) THEN jobStats
    ELSE LET job == run.jobs[j]
             stat == IF job.name \in DOMAIN jobStats
                     THEN jobStats[job.name] ELSE NewJobStatistic
         IN  IF job.conclusion = "cancelled" \/ job.conclusion = "skipped"
             THEN ProcessJobs(jobStats, run, j + 1, isInLast7Days)
             ELSE ProcessJobs(WithJob(jobStats, job.name,
                                      CountJob(stat, run, job, isInLast7Days)),
                              run, j + 1, isInLast7Days)

\* A variant of the batches that counts the jobs of every run, answered or
\* not.
RECURSIVE ProcessRunsCountingAll(_, _, _, _)
ProcessRunsCountingAll(jobStats, runList, i, sevenDaysAgo) ==
    IF i > Len(runList) THEN jobStats
    ELSE ProcessRunsCountingAll(
             ProcessJobs(jobStats, runList[i], 1,
                         runList[i].created_at >= sevenDaysAgo),
             runList, i + 1, sevenDaysAgo)

\* The batches of fetchAndStoreCIData in the order of the run list:
\* if (!jobsData) continue passes over a run whose jobs request failed.
RECURSIVE ProcessRuns(_, _, _, _)
ProcessRuns(jobStats, runList, i, sevenDaysAgo) ==
    IF i > Len(runList) THEN jobStats
    ELSE LET run == runList[i]
         IN  IF ~run.jobs_ok
             THEN ProcessRuns(jobStats, runList, i + 1, sevenDaysAgo)
             ELSE ProcessRuns(ProcessJobs(jobStats, run, 1,
                                          run.created_at >= sevenDaysAgo),
                              runList, i + 1, sevenDaysAgo)

\* total > 0 ? (failures / total) * 100 : 0
FailureRate(failed, succeeded) ==
    IF failed + succeeded > 0
    THEN (failed * 100 * 100) \div (failed + succeeded)
    ELSE 0

\* .sort((a, b) => new Date(b.createdAt) - new Date(a.createdAt))
NewestFirst(list) == SortSeq(list, LAMBDA a, b : a.createdAt > b.createdAt)

\* A variant of the rate calculation that keeps every failure entry.
WithRatesKeepingAll(stat) ==
    [stat EXCEPT
       !.failureRate = FailureRate(stat.failures, stat.successes),
       !.last7Days = [@ EXCEPT !.failureRate =
                          FailureRate(stat.last7Days.failures,
                                      stat.last7Days.successes)],
       !.instances = NewestFirst(@)]

\* Calculate failure rates: the rates, recentFailures.slice(-5), and the
\* instances sorted newest first
WithRates(stat) ==
    [stat EXCEPT
       !.failureRate = FailureRate(stat.failures, stat.successes),
       !.last7Days = [@ EXCEPT !.failureRate =
                          FailureRate(stat.last7Days.failures,
                                      stat.last7Days.successes)],
       !.recentFailures = SliceLast(@, RecentFailuresKept),
       !.instances = NewestFirst(@)]

\* sevenDaysAgo.setDate(sevenDaysAgo.getDate() - 7)
SevenDaysAgo(t) == AddDays(t, -RollingWindowDays)

\* for (const jobName in processedData.jobStats): the rates of every job
RatedJobStats(counted) == [n \in DOMAIN counted |-> WithRates(counted[n])]

\* processedData.jobStats of fetchAndStoreCIData for the fetched run list
JobStatsOf(runList, t) ==
    RatedJobStats(ProcessRuns(<<>>, runList, 1, SevenDaysAgo(t)))

\* processedData
ProcessedData(runList, t) ==
    [exists |-> TRUE, jobStats |-> JobStatsOf(runList, t),
     lastUpdated |-> t, totalRuns |-> Len(runList)]

\* dailySnapshot.jobs of fetchAndStoreCIData
DailyJobs(jobStats) ==
    [n \in DOMAIN jobStats |->
        [failureRate |-> jobStats[n].failureRate,
         failures |-> jobStats[n].failures,
         successes |-> jobStats[n].successes,
         last7DaysFailureRate |-> jobStats[n].last7Days.failureRate,
         last7DaysFailures |-> jobStats[n].last7Days.failures,
         last7DaysSuccesses |-> jobStats[n].last7Days.successes,
         instances |-> jobStats[n].instances,
         recentFailures |-> jobStats[n].recentFailures]]

\* snapshot.jobs of backfillHistoricalData from the counts of one day: the
\* day's own numbers stand for the last 7 days.
BackfillJobsOf(counted) ==
    [n \in DOMAIN counted |->
        LET failureRate == FailureRate(counted[n].failures, counted[n].successes)
        IN  [failureRate |-> failureRate,
             failures |-> counted[n].failures,
             successes |-> counted[n].successes,
             last7DaysFailureRate |-> failureRate,
             last7DaysFailures |-> counted[n].failures,
             last7DaysSuccesses |-> counted[n].successes,
             instances |-> NewestFirst(counted[n].instances),
             recentFailures |->
                 SliceLast(counted[n].recentFailures, RecentFailuresKept)]]

\* snapshot.jobs of backfillHistoricalData for the runs of one day
BackfillJobs(runList) == BackfillJobsOf(ProcessRuns(<<>>, runList, 1, 0))

\* &created=${dateStr}..${nextDay}: the runs upstream lists for the day
RunsCreatedOn(runList, dateStr) ==
    SelectSeq(runList, LAMBDA run : DateStr(run.created_at) = dateStr)

\* Array.prototype.slice(0, n)
SliceFirst(s, n) == IF Len(s) <= n THEN s ELSE SubSeq(s, 1, n)

\* Array.from(new Map(list.map(fail => [fail.runId, fail])).values()): one
\* entry per runId, at the place of the first, with the value of the last.
RECURSIVE UniqueByRunId(_, _)
UniqueByRunId(list, unique) ==
    IF list = <<>> THEN unique
    ELSE LET fail == Head(list)
         IN  UniqueByRunId(
                 Tail(list),
                 IF \E i \in 1..Len(unique) : unique[i].runId = fail.runId
                 THEN [i \in 1..Len(unique) |->
                          IF unique[i].runId = fail.runId THEN fail ELSE unique[i]]
                 ELSE Append(unique, fail))

\* A variant of the deduplication of instances that keeps every instance.
UniqueByJobIdKeepingAll(list, unique) == unique \o list

\* Array.from(new Map(list.map(inst => [inst.jobId, inst])).values()): one
\* entry per jobId, at the place of the first, with the value of the last.
RECURSIVE UniqueByJobId(_, _)
UniqueByJobId(list, unique) ==
    IF list = <<>> THEN unique
    ELSE LET inst == Head(list)
         IN  UniqueByJobId(
                 Tail(list),
                 IF \E i \in 1..Len(unique) : unique[i].jobId = inst.jobId
                 THEN [i \in 1..Len(unique) |->
                          IF unique[i].jobId = inst.jobId THEN inst ELSE unique[i]]
                 ELSE Append(unique, inst))

\* jobAggregates of handleDateRangeQuery: the sums and the collected
\* instances and failures over the snapshots, in the order of the filtered
\* dates.
RECURSIVE Aggregates(_, _, _)
Aggregates(jobAggregates, dailyData, i) ==
    IF i > Len(dailyData) THEN jobAggregates
    ELSE LET dailySnapshot == dailyData[i]
             snapshotJobs == dailySnapshot.jobs
             Agg(n) == IF n \in DOMAIN jobAggregates THEN jobAggregates[n]
                       ELSE [totalFailures |-> 0, totalSuccesses |-> 0,
                             dataPoints |-> 0, recentFailures |-> <<>>,
                             instances |-> <<>>]
         IN  Aggregates(
                 [n \in DOMAIN jobAggregates \cup DOMAIN snapshotJobs |->
                     IF n \in DOMAIN snapshotJobs
                     THEN [totalFailures |-> Agg(n).totalFailures + snapshotJobs[n].failures,
                           totalSuccesses |-> Agg(n).totalSuccesses + snapshotJobs[n].successes,
                           dataPoints |-> Agg(n).dataPoints + 1,
                           instances |-> Agg(n).instances
                                         \o snapshotJobs[n].instances,
                           recentFailures |-> Agg(n).recentFailures
                                              \o snapshotJobs[n].recentFailures]
                     ELSE jobAggregates[n]],
                 dailyData, i + 1)

\* jobStats of handleDateRangeQuery
AggregateJobStats(jobAggregates) ==
    [n \in DOMAIN jobAggregates |->
        LET agg == jobAggregates[n]
            total == agg.totalFailures + agg.totalSuccesses
            failureRate == FailureRate(agg.totalFailures, agg.totalSuccesses)
        IN  [totalRuns |-> total,
             failures |-> agg.totalFailures,
             successes |-> agg.totalSuccesses,
             failureRate |-> failureRate,
             last7Days |-> [totalRuns |-> total, failures |-> agg.totalFailures,
                            successes |-> agg.totalSuccesses,
                            failureRate |-> failureRate],
             recentFailures |->
                 SliceFirst(NewestFirst(UniqueByRunId(agg.recentFailures, <<>>)),
                            RecentFailuresKept),
             instances |-> NewestFirst(UniqueByJobId(agg.instances, <<>>))]]

\* The response of handleDateRangeQuery for the index, the snapshots stored
\* and the range of dates asked for.
DateRangeResponse(indexData, daily, startDateStr, endDateStr, t) ==
    LET filteredDates == SelectSeq(DatesOf(indexData),
                                   LAMBDA date : date >= startDateStr
                                                 /\ date <= endDateStr)
        stored == SelectSeq(filteredDates, LAMBDA date : date \in DOMAIN daily)
        dailyData == [i \in 1..Len(stored) |-> daily[stored[i]]]
        dateRange == [start |-> ParseDate(startDateStr),
                      end |-> ParseDate(endDateStr)]
    IN  IF Len(DatesOf(indexData)) = 0
        THEN [exists |-> TRUE, jobStats |-> <<>>, lastUpdated |-> t,
              totalRuns |-> 0]
        ELSE IF Len(filteredDates) = 0
        THEN [exists |-> TRUE, jobStats |-> <<>>, lastUpdated |-> t,
              totalRuns |-> 0, dateRange |-> dateRange]
        ELSE [exists |-> TRUE,
              jobStats |-> AggregateJobStats(Aggregates(<<>>, dailyData, 1)),
              lastUpdated |-> t, totalRuns |-> Len(filteredDates),
              dateRange |-> dateRange]

(***************************************************************************)
(* CI handler invocations.                                                 *)
(***************************************************************************)
\* url.searchParams.get(..) of a parameter the request does not carry
NoDate == 0

\* Which of the parameters startDate and endDate a request to /api/ci-data
\* carried.
NoParams == [given |-> FALSE, hasStartDate |-> FALSE, hasEndDate |-> FALSE]

Params(startDate, endDate) ==
    [given |-> TRUE, hasStartDate |-> startDate # NoDate,
     hasEndDate |-> endDate # NoDate]

IdleCI ==
    [pc |-> "idle", backfill |-> FALSE, dateKey |-> 0, dateStr |-> 0,
     dates |-> <<>>, gaps |-> <<>>, gi |-> 0, currentDate |-> 0,
     known |-> {}, fetched |-> <<>>, data |-> NoValue, result |-> "none",
     params |-> NoParams, batch |-> NoValue]

\* The invocation returns: its locals are gone, its response, what it
\* fetched and the processedData it computed remain on record.
Done(r, result) ==
    [IdleCI EXCEPT !.pc = "done", !.result = result, !.backfill = r.backfill,
                   !.dateKey = r.dateKey, !.gaps = r.gaps, !.known = r.known,
                   !.fetched = r.fetched, !.data = r.data]

\* The position of backfillHistoricalData's loops once a day is finished:
\* while (currentDate <= endDate) within handleRefresh's for (const gap of gaps).
RECURSIVE Settle(_)
Settle(r) ==
    IF r.gi > Len(r.gaps)
    THEN Done(r, "ok")
    ELSE IF r.currentDate <= r.gaps[r.gi].end
         THEN [r EXCEPT !.pc = "day"]
         ELSE IF r.gi < Len(r.gaps)
              THEN Settle([r EXCEPT !.gi = r.gi + 1,
                                    !.currentDate = r.gaps[r.gi + 1].start])
              ELSE Done(r, "ok")

\* currentDate.setDate(currentDate.getDate() + 1), then the loop conditions
NextDay(r) ==
    Settle([r EXCEPT !.currentDate = AddDays(r.currentDate, 1),
                     !.dates = <<>>, !.dateStr = 0])


\* A daily snapshot { date, jobs }, with the code path that wrote it.
Snapshot(date, by, jobs) == [date |-> date, by |-> by, jobs |-> jobs]

\* handleRefresh is entered (backfill = the request's ?backfill=true); without
\* backfill the invocation is also that of scheduled() at 6 UTC.
handleRefresh(p) ==
    /\ ci[p].pc = "idle"
    /\ p = 1 \/ ci[1].pc # "idle"
    /\ \E b \in BOOLEAN :
         ci' = [ci EXCEPT ![p] = [IdleCI EXCEPT !.pc = "runs", !.backfill = b]]
    /\ UNCHANGED <<now, failures, noRuns, kvIndex, kvDaily, kvCurrent>>
    /\ UNCHANGED <<runs, itemVars>>

\* A variant of the start of fetchAndStoreCIData that takes a non-OK
\* response for an empty run list instead of throwing.
fetchAndStoreCIData_dailyIgnoringStatus(p) ==
    /\ ci[p].pc = "runs"
    /\ \E listed \in {<<>>, runs} :
         LET processedData == ProcessedData(listed, now)
             dateKey == DateStr(now)
             dailySnapshot == Snapshot(dateKey, "sync",
                                       DailyJobs(processedData.jobStats))
         IN  /\ listed = <<>> => failures < MaxFailures
             /\ failures' = IF listed = <<>> THEN failures + 1 ELSE failures
             /\ kvDaily' = PutDaily(kvDaily, dateKey, dailySnapshot)
             /\ ci' = [ci EXCEPT ![p].pc = "indexGet", ![p].dateKey = dateKey,
                                  ![p].data = processedData]
    /\ UNCHANGED <<now, noRuns, kvIndex, kvCurrent>>
    /\ UNCHANGED <<runs, itemVars>>

\* fetchAndStoreCIData up to the put of daily:<dateKey>: the run list is
\* fetched (a non-OK response throws, and handleRefresh answers 500), then
\* the jobs of every run, and the statistics are computed from them.
fetchAndStoreCIData_daily(p) ==
    /\ ci[p].pc = "runs"
    /\ \/ /\ failures < MaxFailures
          /\ failures' = failures + 1
          /\ ci' = [ci EXCEPT ![p] = Done(ci[p], "error")]
          /\ UNCHANGED kvDaily
       \/ LET processedData == ProcessedData(runs, now)
              dateKey == DateStr(now)
              dailySnapshot == Snapshot(dateKey, "sync",
                                        DailyJobs(processedData.jobStats))
          IN  /\ kvDaily' = PutDaily(kvDaily, dateKey, dailySnapshot)
              /\ ci' = [ci EXCEPT ![p].pc = "indexGet", ![p].dateKey = dateKey,
                                   ![p].data = processedData]
              /\ UNCHANGED failures
    /\ UNCHANGED <<now, noRuns, kvIndex, kvCurrent>>
    /\ UNCHANGED <<runs, itemVars>>

\* A variant of the read of the index that goes on to push today's date
\* whether or not the index includes it.
fetchAndStoreCIData_indexGetThenPush(p) ==
    /\ ci[p].pc = "indexGet"
    /\ ci' = [ci EXCEPT ![p].dates = DatesOf(kvIndex), ![p].pc = "indexPut"]
    /\ UNCHANGED <<now, failures, noRuns, kvIndex, kvDaily, kvCurrent>>
    /\ UNCHANGED <<runs, itemVars>>

\* const indexData = await env.CI_DATA_KV.get('date-index', 'json')
fetchAndStoreCIData_indexGet(p) ==
    /\ ci[p].pc = "indexGet"
    /\ LET dates == DatesOf(kvIndex)
       IN  ci' = [ci EXCEPT ![p].dates = dates,
                            ![p].pc = IF Includes(dates, ci[p].dateKey)
                                      THEN "current" ELSE "indexPut"]
    /\ UNCHANGED <<now, failures, noRuns, kvIndex, kvDaily, kvCurrent>>
    /\ UNCHANGED <<runs, itemVars>>

\* await env.CI_DATA_KV.put('date-index', { dates: recentDates })
fetchAndStoreCIData_indexPut(p) ==
    /\ ci[p].pc = "indexPut"
    /\ kvIndex' = IndexData(IndexWithToday(ci[p].dates, ci[p].dateKey))
    /\ ci' = [ci EXCEPT ![p].pc = "current"]
    /\ UNCHANGED <<now, failures, noRuns, kvDaily, kvCurrent>>
    /\ UNCHANGED <<runs, itemVars>>

\* await env.CI_DATA_KV.put('ci-data', ...), then handleRefresh's if (backfill)
fetchAndStoreCIData_current(p) ==
    /\ ci[p].pc = "current"
    /\ kvCurrent' = ci[p].data
    /\ ci' = [ci EXCEPT ![p] = IF ci[p].backfill
                                THEN [ci[p] EXCEPT !.pc = "gaps", !.dates = <<>>]
                                ELSE Done(ci[p], "ok")]
    /\ UNCHANGED <<now, failures, noRuns, kvIndex, kvDaily>>
    /\ UNCHANGED <<runs, itemVars>>

\* const gaps = await getMissingDateRanges(env), and the start of the first
\* backfillHistoricalData call
handleRefresh_gaps(p) ==
    /\ ci[p].pc = "gaps"
    /\ \E skew \in {0, 1} :
         LET gaps == getMissingDateRanges(kvIndex, now, now + skew)
         IN  ci' = [ci EXCEPT ![p] =
                      IF Len(gaps) = 0
                      THEN Done(ci[p], "ok")
                      ELSE Settle([ci[p] EXCEPT !.gaps = gaps, !.gi = 1,
                                                !.known = Range(DatesOf(kvIndex)),
                                                !.currentDate = gaps[1].start])]
    /\ UNCHANGED <<now, failures, noRuns, kvIndex, kvDaily, kvCurrent>>
    /\ UNCHANGED <<runs, itemVars>>

\* A variant of the backfill iteration in which a day whose fetch failed is
\* recorded in the index like a day without runs.
backfillHistoricalData_dayIndexingFailures(p) ==
    /\ ci[p].pc = "day"
    /\ LET dateStr == DateStr(ci[p].currentDate)
           dayRuns == RunsCreatedOn(runs, dateStr)
           r == [ci[p] EXCEPT !.dateStr = dateStr,
                              !.fetched = Append(ci[p].fetched, dateStr)]
       IN  \/ /\ failures < MaxFailures
              /\ failures' = failures + 1
              /\ ci' = [ci EXCEPT ![p] = [r EXCEPT !.pc = "addGet"]]
              /\ UNCHANGED kvDaily
           \/ /\ failures < MaxFailures
              /\ failures' = failures + 1
              /\ ci' = [ci EXCEPT ![p] = Done(r, "error")]
              /\ UNCHANGED kvDaily
           \/ /\ Len(dayRuns) = 0
              /\ ci' = [ci EXCEPT ![p] = [r EXCEPT !.pc = "addGet"]]
              /\ UNCHANGED <<kvDaily, failures>>
           \/ /\ Len(dayRuns) # 0
              /\ kvDaily' = PutDaily(kvDaily, dateStr,
                                     Snapshot(dateStr, "backfill",
                                              BackfillJobs(dayRuns)))
              /\ ci' = [ci EXCEPT ![p] = [r EXCEPT !.pc = "addGet"]]
              /\ UNCHANGED failures
    /\ UNCHANGED <<now, noRuns, kvIndex, kvCurrent>>
    /\ UNCHANGED <<runs, itemVars>>

\* One iteration of backfillHistoricalData's loop up to the put of the day's
\* snapshot: the runs of the day are fetched; a non-OK response skips the day,
\* a rejected fetch (it is awaited outside any try) leaves the function and is
\* caught by handleRefresh, which answers 500; an empty list goes to
\* addDateToIndex without a snapshot.
backfillHistoricalData_day(p) ==
    /\ ci[p].pc = "day"
    /\ LET dateStr == DateStr(ci[p].currentDate)
           dayRuns == RunsCreatedOn(runs, dateStr)
           r == [ci[p] EXCEPT !.dateStr = dateStr,
                              !.fetched = Append(ci[p].fetched, dateStr)]
       IN  \/ /\ failures < MaxFailures
              /\ failures' = failures + 1
              /\ ci' = [ci EXCEPT ![p] = NextDay(r)]
              /\ UNCHANGED kvDaily
           \/ /\ failures < MaxFailures
              /\ failures' = failures + 1
              /\ ci' = [ci EXCEPT ![p] = Done(r, "error")]
              /\ UNCHANGED kvDaily
           \/ /\ Len(dayRuns) = 0
              /\ ci' = [ci EXCEPT ![p] = [r EXCEPT !.pc = "addGet"]]
              /\ UNCHANGED <<kvDaily, failures>>
           \/ /\ Len(dayRuns) # 0
              /\ kvDaily' = PutDaily(kvDaily, dateStr,
                                     Snapshot(dateStr, "backfill",
                                              BackfillJobs(dayRuns)))
              /\ ci' = [ci EXCEPT ![p] = [r EXCEPT !.pc = "addGet"]]
              /\ UNCHANGED failures
    /\ UNCHANGED <<now, noRuns, kvIndex, kvCurrent>>
    /\ UNCHANGED <<runs, itemVars>>

\* addDateToIndex: const indexData = await env.CI_DATA_KV.get('date-index')
addDateToIndex_get(p) ==
    /\ ci[p].pc = "addGet"
    /\ LET dates == DatesOf(kvIndex)
       IN  ci' = [ci EXCEPT ![p] =
                    IF Includes(dates, ci[p].dateStr)
                    THEN NextDay(ci[p])
                    ELSE [ci[p] EXCEPT !.dates = dates, !.pc = "addPut"]]
    /\ UNCHANGED <<now, failures, noRuns, kvIndex, kvDaily, kvCurrent>>
    /\ UNCHANGED <<runs, itemVars>>

\* addDateToIndex: await env.CI_DATA_KV.put('date-index', ...)
addDateToIndex_put(p) ==
    /\ ci[p].pc = "addPut"
    /\ kvIndex' = IndexData(IndexWithDate(ci[p].dates, ci[p].dateStr))
    /\ ci' = [ci EXCEPT ![p] = NextDay(ci[p])]
    /\ UNCHANGED <<now, failures, noRuns, kvDaily, kvCurrent>>
    /\ UNCHANGED <<runs, itemVars>>

\* The dates a range is asked for: those of the rolling window.
QueryDays == (StartDay - RollingWindowDays) .. StartDay

\* handleDateRangeQuery, for GET /api/ci-data?startDate=..&endDate=..: the
\* date index and the snapshots of the dates in the range are read and
\* aggregated; nothing is written.
handleDateRangeQuery(p, startDate, endDate) ==
    LET startDateStr == DateStr(ParseDate(startDate))
        endDateStr == DateStr(ParseDate(endDate))
    IN  /\ ci' = [ci EXCEPT ![p] =
                     [IdleCI EXCEPT
                        !.pc = "done", !.result = "range",
                        !.params = Params(startDate, endDate),
                        !.data = DateRangeResponse(kvIndex, kvDaily,
                                                   startDateStr, endDateStr, now)]]
        /\ UNCHANGED <<now, failures, noRuns, kvIndex, kvDaily, kvCurrent>>
        /\ UNCHANGED <<runs, itemVars>>

\* A variant of handleCIData that aggregates as soon as one of startDate and
\* endDate is given; new Date(null) is 1970-01-01.
handleCIDataOnEitherDate(p) ==
    /\ ci[p].pc = "idle"
    /\ p = 1 \/ ci[1].pc # "idle"
    /\ \E startDate, endDate \in QueryDays \cup {NoDate} :
         /\ IF startDate = NoDate \/ endDate = NoDate
            THEN {startDate, endDate} \subseteq {NoDate, DateStr(now)}
            ELSE startDate <= endDate
         /\ IF startDate # NoDate \/ endDate # NoDate
            THEN handleDateRangeQuery(p, startDate, endDate)
            ELSE /\ IF kvCurrent.exists
                    THEN ci' = [ci EXCEPT ![p] =
                                  [IdleCI EXCEPT
                                     !.pc = "done", !.result = "kv-cache",
                                     !.params = Params(startDate, endDate),
                                     !.data = kvCurrent]]
                    ELSE ci' = [ci EXCEPT ![p] =
                                  [IdleCI EXCEPT
                                     !.pc = "runs",
                                     !.params = Params(startDate, endDate)]]
                 /\ UNCHANGED <<now, failures, noRuns, kvIndex, kvDaily,
                                kvCurrent>>
                 /\ UNCHANGED <<runs, itemVars>>

\* handleCIData, for GET /api/ci-data: with both startDate and endDate it is
\* handleDateRangeQuery; otherwise the stored ci-data is returned as it is
\* (X-Data-Source: kv-cache), and when there is none fetchAndStoreCIData is
\* called and its processedData returned (X-Data-Source: fresh-fetch).
handleCIData(p) ==
    /\ ci[p].pc = "idle"
    /\ p = 1 \/ ci[1].pc # "idle"
    /\ \E startDate, endDate \in QueryDays \cup {NoDate} :
         /\ IF startDate = NoDate \/ endDate = NoDate
            THEN {startDate, endDate} \subseteq {NoDate, DateStr(now)}
            ELSE startDate <= endDate
         /\ IF startDate # NoDate /\ endDate # NoDate
            THEN handleDateRangeQuery(p, startDate, endDate)
            ELSE /\ IF kvCurrent.exists
                    THEN ci' = [ci EXCEPT ![p] =
                                  [IdleCI EXCEPT
                                     !.pc = "done", !.result = "kv-cache",
                                     !.params = Params(startDate, endDate),
                                     !.data = kvCurrent]]
                    ELSE ci' = [ci EXCEPT ![p] =
                                  [IdleCI EXCEPT
                                     !.pc = "runs",
                                     !.params = Params(startDate, endDate)]]
                 /\ UNCHANGED <<now, failures, noRuns, kvIndex, kvDaily,
                                kvCurrent>>
                 /\ UNCHANGED <<runs, itemVars>>

\* Time passes: the clock reads midnight, then a later time of the same day.
Tick ==
    /\ now = StartOfDay(now)
    /\ now' = now + MinutesPerDay \div 2
    /\ UNCHANGED <<failures, noRuns, kvIndex, kvDaily, kvCurrent, ci>>
    /\ UNCHANGED <<runs, itemVars>>

(***************************************************************************)
(* The mirror of GitHub issues and pull requests.                          *)
(*                                                                         *)
(* Upstream numbers its issues and pull requests from one sequence, in the *)
(* order of their creation; an item's content is identified by its         *)
(* updatedAt.  Timestamps are minutes on the clock.                        *)
(***************************************************************************)
\* const SYNC_OVERLAP_MINUTES = 10
SYNC_OVERLAP_MINUTES == 10

\* const STOP_THRESHOLD = 100: the size of a page, as in the source
STOP_THRESHOLD == PageSize

\* The clock advances by steps of which two exceed the overlap.
ClockStep == SYNC_OVERLAP_MINUTES \div 2 + 1

NoItems == <<>>

NullCursor == [set |-> FALSE, number |-> 0, updatedAt |-> 0]

Max(S) == CHOOSE x \in S : \A y \in S : y <= x

Min(S) == CHOOSE x \in S : \A y \in S : x <= y

\* items[number] = item
PutItem(items, number, item) ==
    [n \in DOMAIN items \cup {number} |-> IF n = number THEN item ELSE items[n]]

\* (data as Record<number, GitHubItem>) || {}
ItemsOf(data) == IF data.exists THEN data.items ELSE NoItems

\* A timestamp that may be null: closedAt, mergedAt.
NoTime == [set |-> FALSE, at |-> 0]

Time(t) == [set |-> TRUE, at |-> t]

\* a || b for two timestamps that may be null
OrElse(a, b) == IF a.set THEN a ELSE b

\* An issue or pull request as upstream holds it once opened, at time t.
Opened(type, t) ==
    [type |-> type, createdAt |-> t, updatedAt |-> t, state |-> "OPEN",
     merged |-> FALSE, closedAt |-> NoTime, mergedAt |-> NoTime, labels |-> {},
     comments |-> 0]

\* The node of a GraphQL response for the item up[n].
NodeOf(up, n) ==
    [number |-> n, createdAt |-> up[n].createdAt,
     updatedAt |-> up[n].updatedAt, state |-> up[n].state,
     merged |-> up[n].merged, closedAt |-> up[n].closedAt,
     mergedAt |-> up[n].mergedAt, labels |-> up[n].labels,
     comments |-> up[n].comments]

\* A node of a GraphQL response.
Node(n) == NodeOf(upstream, n)

transformIssueNode(node) ==
    [number |-> node.number, type |-> "issue",
     state |-> IF node.state = "OPEN" THEN "open" ELSE "closed",
     createdAt |-> node.createdAt, closedAt |-> node.closedAt,
     updatedAt |-> node.updatedAt, labels |-> node.labels,
     commentCount |-> node.comments]

\* A variant of transformPRNode that does not look at the merged flag.
transformPRNodeByState(node) ==
    [number |-> node.number, type |-> "pr",
     state |-> IF node.state = "OPEN" THEN "open" ELSE "closed",
     createdAt |-> node.createdAt,
     closedAt |-> OrElse(node.closedAt, node.mergedAt),
     updatedAt |-> node.updatedAt, labels |-> node.labels,
     commentCount |-> node.comments]

transformPRNode(node) ==
    [number |-> node.number, type |-> "pr",
     state |-> IF node.merged THEN "merged"
               ELSE IF node.state = "OPEN" THEN "open" ELSE "closed",
     createdAt |-> node.createdAt,
     closedAt |-> OrElse(node.closedAt, node.mergedAt),
     updatedAt |-> node.updatedAt, labels |-> node.labels,
     commentCount |-> node.comments]

Transform(node, type) ==
    IF type = "issue" THEN transformIssueNode(node) ELSE transformPRNode(node)

\* The numbers of upstream's items of a type.
NumbersOf(type) == {n \in 1..Len(upstream) : upstream[n].type = type}

\* issues(filterBy: { since }): the issues updated at or after since
UpdatedSince(since) ==
    {n \in NumbersOf("issue") : upstream[n].updatedAt >= since}

\* orderBy: { field: UPDATED_AT, direction: DESC }; equal times by number
UpdatedBefore(a, b) ==
    \/ a.updatedAt > b.updatedAt
    \/ a.updatedAt = b.updatedAt /\ a.number > b.number

\* first: 100, after: $cursor, orderBy CREATED_AT ASC, over the numbers S
PageByCreated(S, cursor) ==
    LET rest == SeqOfSet({n \in S : n > cursor.number})
        nodes == SubSeq(rest, 1, IF Len(rest) < PageSize THEN Len(rest) ELSE PageSize)
    IN  [nodes |-> [i \in 1..Len(nodes) |-> Node(nodes[i])],
         hasNextPage |-> Len(rest) > PageSize,
         endCursor |-> IF Len(nodes) = 0 THEN NullCursor
                       ELSE [set |-> TRUE, number |-> nodes[Len(nodes)],
                             updatedAt |-> upstream[nodes[Len(nodes)]].updatedAt]]

\* first: 100, after: $cursor, orderBy UPDATED_AT DESC, over the pull requests
PageByUpdated(cursor) ==
    LET after == {n \in NumbersOf("pr") :
                     ~cursor.set \/ UpdatedBefore(cursor, Node(n))}
        rest == SortSeq(SeqOfSet(after),
                        LAMBDA a, b : UpdatedBefore(Node(a), Node(b)))
        nodes == SubSeq(rest, 1, IF Len(rest) < PageSize THEN Len(rest) ELSE PageSize)
    IN  [nodes |-> [i \in 1..Len(nodes) |-> Node(nodes[i])],
         hasNextPage |-> Len(rest) > PageSize,
         endCursor |-> IF Len(nodes) = 0 THEN NullCursor
                       ELSE [set |-> TRUE, number |-> nodes[Len(nodes)],
                             updatedAt |-> upstream[nodes[Len(nodes)]].updatedAt]]

\* performFullSync: for (const node of nodes)
RECURSIVE FullSyncNodes(_, _, _, _)
FullSyncNodes(r, nodes, i, type) ==
    IF i > Len(nodes) THEN r
    ELSE LET node == nodes[i]
         IN  FullSyncNodes(
                 [r EXCEPT !.newItems = IF node.number \in DOMAIN r.items
                                        THEN r.newItems ELSE r.newItems + 1,
                           !.items = PutItem(r.items, node.number, Transform(node, type))],
                 nodes, i + 1, type)

\* fetchNewItems: for (const node of nodes)
RECURSIVE NewItemsNodes(_, _, _, _)
NewItemsNodes(r, nodes, i, type) ==
    IF i > Len(nodes) THEN r
    ELSE LET node == nodes[i]
         IN  NewItemsNodes(
                 IF node.number \in DOMAIN r.items
                 THEN [r EXCEPT !.consecutiveKnown = r.consecutiveKnown + 1]
                 ELSE [r EXCEPT !.consecutiveKnown = 0,
                                !.newItems = r.newItems + 1,
                                !.items = PutItem(r.items, node.number,
                                                  Transform(node, type))],
                 nodes, i + 1, type)

\* A variant of fetchUpdatedItems' loop body that counts every node it already
\* holds as updated.
RECURSIVE UpdatedItemsNodesCountingKnown(_, _, _, _)
UpdatedItemsNodesCountingKnown(r, nodes, i, type) ==
    IF i > Len(nodes) THEN r
    ELSE LET node == nodes[i]
         IN  IF type = "pr" /\ node.updatedAt < r.since
             THEN [r EXCEPT !.foundOlder = TRUE]
             ELSE UpdatedItemsNodesCountingKnown(
                      [r EXCEPT !.updatedItems =
                                    IF node.number \in DOMAIN r.items
                                    THEN r.updatedItems + 1 ELSE r.updatedItems,
                                !.items = PutItem(r.items, node.number,
                                                  Transform(node, type))],
                      nodes, i + 1, type)

\* fetchUpdatedItems: for (const node of nodes); the pull requests' loop
\* breaks at the first node updated before since
RECURSIVE UpdatedItemsNodes(_, _, _, _)
UpdatedItemsNodes(r, nodes, i, type) ==
    IF i > Len(nodes) THEN r
    ELSE LET node == nodes[i]
         IN  IF type = "pr" /\ node.updatedAt < r.since
             THEN [r EXCEPT !.foundOlder = TRUE]
             ELSE UpdatedItemsNodes(
                      [r EXCEPT !.updatedItems =
                                    IF /\ node.number \in DOMAIN r.items
                                       /\ r.items[node.number].updatedAt # node.updatedAt
                                    THEN r.updatedItems + 1 ELSE r.updatedItems,
                                !.items = PutItem(r.items, node.number,
                                                  Transform(node, type))],
                      nodes, i + 1, type)

\* A variant of the metadata whose oldestDate is that of the latest createdAt.
NewMetaOfLatest(items, t) ==
    [exists |-> TRUE,
     lastSync |-> t,
     highestNumber |-> Max({0} \cup DOMAIN items),
     oldestDate |-> IF DOMAIN items # {}
                    THEN DateStr(Max({items[n].createdAt : n \in DOMAIN items}))
                    ELSE DateStr(t),
     issueCount |-> Cardinality({n \in DOMAIN items : items[n].type = "issue"}),
     prCount |-> Cardinality({n \in DOMAIN items : items[n].type = "pr"})]

\* syncGitHubItems: "Calculate new metadata"
NewMeta(items, t) ==
    [exists |-> TRUE,
     lastSync |-> t,
     highestNumber |-> Max({0} \cup DOMAIN items),
     oldestDate |-> IF DOMAIN items # {}
                    THEN DateStr(Min({items[n].createdAt : n \in DOMAIN items}))
                    ELSE DateStr(t),
     issueCount |-> Cardinality({n \in DOMAIN items : items[n].type = "issue"}),
     prCount |-> Cardinality({n \in DOMAIN items : items[n].type = "pr"})]


(***************************************************************************)
(* syncGitHubItems invocations.  Besides its locals, an invocation records *)
(* the store it found when it was entered, its store operations, and       *)
(* whether another invocation overlapped or followed it.                   *)
(***************************************************************************)
IdleSync ==
    [pc |-> "idle", force |-> FALSE, mode |-> "none", items |-> NoItems,
     meta |-> NoValue, cursor |-> NullCursor, consecutiveKnown |-> 0,
     foundOlder |-> FALSE, since |-> 0, newItems |-> 0, updatedItems |-> 0,
     newMeta |-> NoValue, pend |-> {}, ops |-> {},
     before |-> [items |-> NoValue, meta |-> NoValue], startTime |-> 0,
     alone |-> TRUE, last |-> FALSE, result |-> "none"]

\* The invocation returns or throws: its locals are gone.  What it found
\* when entered stays on record where a property reads it: the store for an
\* invocation that threw, its time of entry for one that returned.
DoneSync(r, result) ==
    [IdleSync EXCEPT !.pc = "done", !.result = result, !.force = r.force,
                     !.mode = r.mode,
                     !.ops = IF result = "error" THEN r.ops ELSE {},
                     !.before = IF result = "error" THEN r.before
                                ELSE IdleSync.before,
                     !.startTime = IF result = "ok" THEN r.startTime ELSE 0,
                     !.alone = r.alone, !.last = r.last]

\* throw new Error(...) in fetchIssuesGraphQL / fetchPRsGraphQL
Throw(r) == DoneSync(r, "error")

\* The passes are over: newMeta is computed and saveGitHubItemsToKV starts
\* its two puts.
ToSave(r) ==
    [r EXCEPT !.pc = "put", !.cursor = NullCursor,
              !.newMeta = NewMeta(r.items, now),
              !.pend = {"putItems", "putMeta"}]

Running(r) == r.pc \notin {"idle", "done"}

\* A variant of the entry of syncGitHubItems that deletes the stored data
\* whether or not force is set.
syncGitHubItemsDeletingAlways(s) ==
    /\ sy[s].pc = "idle"
    /\ s = 1 \/ sy[1].pc # "idle"
    /\ \E force \in BOOLEAN :
         sy' = [q \in Procs |->
                  IF q = s
                  THEN [IdleSync EXCEPT
                          !.pc = "delete",
                          !.force = force,
                          !.pend = {"deleteItems", "deleteMeta"},
                          !.before = [items |-> kvItems, meta |-> kvMeta],
                          !.startTime = now,
                          !.alone = \A o \in Procs \ {s} : ~Running(sy[o]),
                          !.last = TRUE]
                  ELSE IF Running(sy[q])
                       THEN [sy[q] EXCEPT !.alone = FALSE, !.last = FALSE]
                       ELSE [IdleSync EXCEPT !.pc = sy[q].pc]]
    /\ UNCHANGED <<now, failures, upstream, kvItems, kvMeta>>
    /\ UNCHANGED ciVars

\* syncGitHubItems is entered, from scheduled() or POST /api/github-items/sync
\* (force = the request's ?force).
syncGitHubItems(s) ==
    /\ sy[s].pc = "idle"
    /\ s = 1 \/ sy[1].pc # "idle"
    /\ \E force \in BOOLEAN :
         sy' = [q \in Procs |->
                  IF q = s
                  THEN [IdleSync EXCEPT
                          !.pc = IF force THEN "delete" ELSE "loadItems",
                          !.force = force,
                          !.pend = IF force THEN {"deleteItems", "deleteMeta"} ELSE {},
                          !.before = [items |-> kvItems, meta |-> kvMeta],
                          !.startTime = now,
                          !.alone = \A o \in Procs \ {s} : ~Running(sy[o]),
                          !.last = TRUE]
                  ELSE IF Running(sy[q])
                       THEN [sy[q] EXCEPT !.alone = FALSE, !.last = FALSE]
                       ELSE [IdleSync EXCEPT !.pc = sy[q].pc]]
    /\ UNCHANGED <<now, failures, upstream, kvItems, kvMeta>>
    /\ UNCHANGED ciVars

\* deleteGitHubItemsFromKV: one of the two deletes of Promise.all completes
deleteGitHubItemsFromKV(s) ==
    /\ sy[s].pc = "delete"
    /\ \E op \in sy[s].pend :
         LET r == [sy[s] EXCEPT !.pend = sy[s].pend \ {op},
                                !.ops = sy[s].ops \cup {op}]
         IN  /\ kvItems' = IF op = "deleteItems" THEN NoValue ELSE kvItems
             /\ kvMeta' = IF op = "deleteMeta" THEN NoValue ELSE kvMeta
             /\ sy' = [sy EXCEPT ![s] =
                         IF r.pend = {}
                         THEN [r EXCEPT !.pc = "fullIssues", !.mode = "full",
                                        !.items = NoItems, !.meta = NoValue]
                         ELSE r]
    /\ UNCHANGED <<now, failures, upstream>>
    /\ UNCHANGED ciVars

\* items = await loadGitHubItemsFromKV(env)
loadGitHubItemsFromKV(s) ==
    /\ sy[s].pc = "loadItems"
    /\ sy' = [sy EXCEPT ![s].items = ItemsOf(kvItems), ![s].pc = "loadMeta"]
    /\ UNCHANGED <<now, failures, upstream, kvItems, kvMeta>>
    /\ UNCHANGED ciVars

\* meta = await loadGitHubItemsMetaFromKV(env), then if (!meta || force)
loadGitHubItemsMetaFromKV(s) ==
    /\ sy[s].pc = "loadMeta"
    /\ sy' = [sy EXCEPT ![s].meta = kvMeta,
                        ![s].mode = IF kvMeta.exists THEN "incremental" ELSE "full",
                        ![s].pc = IF kvMeta.exists THEN "newIssues" ELSE "fullIssues"]
    /\ UNCHANGED <<now, failures, upstream, kvItems, kvMeta>>
    /\ UNCHANGED ciVars

\* A variant of the loop over all issues that leaves it after the first page.
performFullSync_issuesFirstPageOnly(s) ==
    /\ sy[s].pc = "fullIssues"
    /\ \/ /\ failures < MaxFailures
          /\ failures' = failures + 1
          /\ sy' = [sy EXCEPT ![s] = Throw(sy[s])]
       \/ LET page == PageByCreated(NumbersOf("issue"), sy[s].cursor)
              r == FullSyncNodes(sy[s], page.nodes, 1, "issue")
          IN  /\ sy' = [sy EXCEPT ![s] =
                          [r EXCEPT !.pc = "fullPRs", !.cursor = NullCursor]]
              /\ UNCHANGED failures
    /\ UNCHANGED <<now, upstream, kvItems, kvMeta>>
    /\ UNCHANGED ciVars

\* performFullSync: one page of the loop over all issues
performFullSync_issues(s) ==
    /\ sy[s].pc = "fullIssues"
    /\ \/ /\ failures < MaxFailures
          /\ failures' = failures + 1
          /\ sy' = [sy EXCEPT ![s] = Throw(sy[s])]
       \/ LET page == PageByCreated(NumbersOf("issue"), sy[s].cursor)
              r == FullSyncNodes(sy[s], page.nodes, 1, "issue")
          IN  /\ sy' = [sy EXCEPT ![s] =
                          IF page.hasNextPage
                          THEN [r EXCEPT !.cursor = page.endCursor]
                          ELSE [r EXCEPT !.pc = "fullPRs", !.cursor = NullCursor]]
              /\ UNCHANGED failures
    /\ UNCHANGED <<now, upstream, kvItems, kvMeta>>
    /\ UNCHANGED ciVars

\* performFullSync: one page of the loop over all pull requests
performFullSync_prs(s) ==
    /\ sy[s].pc = "fullPRs"
    /\ \/ /\ failures < MaxFailures
          /\ failures' = failures + 1
          /\ sy' = [sy EXCEPT ![s] = Throw(sy[s])]
       \/ LET page == PageByCreated(NumbersOf("pr"), sy[s].cursor)
              r == FullSyncNodes(sy[s], page.nodes, 1, "pr")
          IN  /\ sy' = [sy EXCEPT ![s] =
                          IF page.hasNextPage
                          THEN [r EXCEPT !.cursor = page.endCursor]
                          ELSE ToSave(r)]
              /\ UNCHANGED failures
    /\ UNCHANGED <<now, upstream, kvItems, kvMeta>>
    /\ UNCHANGED ciVars

\* A variant of the pass over the issues that goes on to the last page.
fetchNewItems_issuesToTheEnd(s) ==
    /\ sy[s].pc = "newIssues"
    /\ \/ /\ failures < MaxFailures
          /\ failures' = failures + 1
          /\ sy' = [sy EXCEPT ![s] = Throw(sy[s])]
       \/ LET page == PageByCreated(NumbersOf("issue"), sy[s].cursor)
              r == NewItemsNodes(sy[s], page.nodes, 1, "issue")
          IN  /\ sy' = [sy EXCEPT ![s] =
                          IF page.hasNextPage
                          THEN [r EXCEPT !.cursor = page.endCursor]
                          ELSE [r EXCEPT !.pc = "newPRs", !.cursor = NullCursor,
                                         !.consecutiveKnown = 0]]
              /\ UNCHANGED failures
    /\ UNCHANGED <<now, upstream, kvItems, kvMeta>>
    /\ UNCHANGED ciVars

\* fetchNewItems: one page of the loop over the issues, oldest first
fetchNewItems_issues(s) ==
    /\ sy[s].pc = "newIssues"
    /\ \/ /\ failures < MaxFailures
          /\ failures' = failures + 1
          /\ sy' = [sy EXCEPT ![s] = Throw(sy[s])]
       \/ LET page == PageByCreated(NumbersOf("issue"), sy[s].cursor)
              r == NewItemsNodes(sy[s], page.nodes, 1, "issue")
          IN  /\ sy' = [sy EXCEPT ![s] =
                          IF page.hasNextPage /\ r.consecutiveKnown < STOP_THRESHOLD
                          THEN [r EXCEPT !.cursor = page.endCursor]
                          ELSE [r EXCEPT !.pc = "newPRs", !.cursor = NullCursor,
                                         !.consecutiveKnown = 0]]
              /\ UNCHANGED failures
    /\ UNCHANGED <<now, upstream, kvItems, kvMeta>>
    /\ UNCHANGED ciVars

\* fetchNewItems: one page of the loop over the pull requests, oldest first;
\* then sinceDate = lastSync - SYNC_OVERLAP_MINUTES
fetchNewItems_prs(s) ==
    /\ sy[s].pc = "newPRs"
    /\ \/ /\ failures < MaxFailures
          /\ failures' = failures + 1
          /\ sy' = [sy EXCEPT ![s] = Throw(sy[s])]
       \/ LET page == PageByCreated(NumbersOf("pr"), sy[s].cursor)
              r == NewItemsNodes(sy[s], page.nodes, 1, "pr")
          IN  /\ sy' = [sy EXCEPT ![s] =
                          IF page.hasNextPage /\ r.consecutiveKnown < STOP_THRESHOLD
                          THEN [r EXCEPT !.cursor = page.endCursor]
                          ELSE [r EXCEPT !.pc = "updIssues", !.cursor = NullCursor,
                                         !.consecutiveKnown = 0,
                                         !.since = r.meta.lastSync - SYNC_OVERLAP_MINUTES]]
              /\ UNCHANGED failures
    /\ UNCHANGED <<now, upstream, kvItems, kvMeta>>
    /\ UNCHANGED ciVars

\* A variant of the issues' update pass that saves the mirror after each page.
fetchUpdatedItems_issuesSavingEachPage(s) ==
    /\ sy[s].pc = "updIssues"
    /\ \/ /\ failures < MaxFailures
          /\ failures' = failures + 1
          /\ sy' = [sy EXCEPT ![s] = Throw(sy[s])]
          /\ UNCHANGED kvItems
       \/ LET page == PageByCreated(UpdatedSince(sy[s].since), sy[s].cursor)
              u == UpdatedItemsNodes(sy[s], page.nodes, 1, "issue")
              r == [u EXCEPT !.ops = u.ops \cup {"putItems"}]
          IN  /\ sy' = [sy EXCEPT ![s] =
                          IF page.hasNextPage
                          THEN [r EXCEPT !.cursor = page.endCursor]
                          ELSE [r EXCEPT !.pc = "updPRs", !.cursor = NullCursor]]
              /\ kvItems' = [exists |-> TRUE, items |-> r.items]
              /\ UNCHANGED failures
    /\ UNCHANGED <<now, upstream, kvMeta>>
    /\ UNCHANGED ciVars

\* fetchUpdatedItems: one page of the loop over the issues updated since
fetchUpdatedItems_issues(s) ==
    /\ sy[s].pc = "updIssues"
    /\ \/ /\ failures < MaxFailures
          /\ failures' = failures + 1
          /\ sy' = [sy EXCEPT ![s] = Throw(sy[s])]
       \/ LET page == PageByCreated(UpdatedSince(sy[s].since), sy[s].cursor)
              r == UpdatedItemsNodes(sy[s], page.nodes, 1, "issue")
          IN  /\ sy' = [sy EXCEPT ![s] =
                          IF page.hasNextPage
                          THEN [r EXCEPT !.cursor = page.endCursor]
                          ELSE [r EXCEPT !.pc = "updPRs", !.cursor = NullCursor]]
              /\ UNCHANGED failures
    /\ UNCHANGED <<now, upstream, kvItems, kvMeta>>
    /\ UNCHANGED ciVars

\* fetchUpdatedItems: one page of the loop over the pull requests, latest
\* update first
fetchUpdatedItems_prs(s) ==
    /\ sy[s].pc = "updPRs"
    /\ \/ /\ failures < MaxFailures
          /\ failures' = failures + 1
          /\ sy' = [sy EXCEPT ![s] = Throw(sy[s])]
       \/ LET page == PageByUpdated(sy[s].cursor)
              r == UpdatedItemsNodes(sy[s], page.nodes, 1, "pr")
          IN  /\ sy' = [sy EXCEPT ![s] =
                          IF page.hasNextPage /\ ~r.foundOlder
                          THEN [r EXCEPT !.cursor = page.endCursor]
                          ELSE ToSave(r)]
              /\ UNCHANGED failures
    /\ UNCHANGED <<now, upstream, kvItems, kvMeta>>
    /\ UNCHANGED ciVars

\* saveGitHubItemsToKV: one of the two puts of Promise.all completes
saveGitHubItemsToKV(s) ==
    /\ sy[s].pc = "put"
    /\ \E op \in sy[s].pend :
         LET r == [sy[s] EXCEPT !.pend = sy[s].pend \ {op},
                                !.ops = sy[s].ops \cup {op}]
         IN  /\ kvItems' = IF op = "putItems"
                           THEN [exists |-> TRUE, items |-> r.items] ELSE kvItems
             /\ kvMeta' = IF op = "putMeta" THEN r.newMeta ELSE kvMeta
             /\ sy' = [sy EXCEPT ![s] = IF r.pend = {} THEN DoneSync(r, "ok") ELSE r]
    /\ UNCHANGED <<now, failures, upstream>>
    /\ UNCHANGED ciVars

(***************************************************************************)
(* The read endpoints over the mirror.  A handler's two loads, of the      *)
(* items and of the metadata, read one state of the store; its response    *)
(* stays on record in the invocation.                                      *)
(***************************************************************************)
\* The days of the view model: the day its items are opened on, the day
\* those that are closed are closed on, the days a query may name (from the
\* day before the first to the day after the second), and the day of the
\* clock.
OpenDay == 2

CloseDay == OpenDay + 4

ViewDays == (OpenDay - 1) .. (CloseDay + 1)

LastViewDay == CloseDay + 2

\* String.prototype.toLowerCase, over the strings the model knows.
LowerCase(s) ==
    CASE s = "OPEN" -> "open"
      [] s = "CLOSED" -> "closed"
      [] s = "MERGED" -> "merged"
      [] s = "Needs Reproduction" -> "needs reproduction"
      [] s = "awaiting Cloudflare response" -> "awaiting cloudflare response"
      [] OTHER -> s

BLOCKING_LABELS ==
    {"awaiting reporter response", "needs reproduction",
     "awaiting Cloudflare response", "blocked"}

AWAITING_DEV_LABELS ==
    {"awaiting reporter response", "needs reproduction", "awaiting dev response"}

\* A variant of the label test that compares the issue's labels as they are
\* spelt.
HasLabelOfAsSpelt(listed, issue) ==
    \E label \in listed : LowerCase(label) \in issue.labels

\* listed.some(label => labelNames.includes(label.toLowerCase())), where
\* labelNames = issue.labels.map(l => l.name.toLowerCase())
HasLabelOf(listed, issue) ==
    LET labelNames == {LowerCase(l) : l \in issue.labels}
    IN  \E label \in listed : LowerCase(label) \in labelNames

\* Object.values(items): the items by ascending number.
ValuesOf(items) ==
    LET numbers == SeqOfSet(DOMAIN items)
    IN  [i \in 1..Len(numbers) |-> items[numbers[i]]]

\* list.sort((a, b) => b[field] - a[field]): latest first, equal times in the
\* order of the list (by ascending number).
LatestFirst(list, field) ==
    SortSeq(list, LAMBDA a, b : \/ a[field] > b[field]
                                \/ a[field] = b[field] /\ a.number < b.number)

\* list.slice(0, n)
Slice(list, n) == SubSeq(list, 1, IF Len(list) < n THEN Len(list) ELSE n)

\* currentDate.setHours(23, 59, 59, 999): the last minute of the day of t.
\* It stands for the instant 23:59:59.999, which no timestamp of whole
\* minutes equals: such a timestamp is at or before it iff it is not after
\* this minute, and after it iff it is after this minute.
EndOfDay(t) == ParseDate(DateStr(t)) + MinutesPerDay - 1

\* A variant of the counting rule that counts every item created by dayEnd.
IsOpenAtOnceCreated(item, dayEnd) == item.createdAt <= dayEnd

\* if (createdAt <= dayEnd) { if (!closedAt || closedAt > dayEnd) ... }
IsOpenAt(item, dayEnd) ==
    /\ item.createdAt <= dayEnd
    /\ ~item.closedAt.set \/ item.closedAt.at > dayEnd

\* calculateDailyOpenCounts: while (currentDate <= endDate), where
\* currentDate is the end of a day and endDate a timestamp of whole minutes
RECURSIVE DailyOpenCountsFrom(_, _, _)
DailyOpenCountsFrom(items, currentDate, endDate) ==
    IF currentDate >= endDate THEN <<>>
    ELSE << [date |-> DateStr(currentDate),
             openCount |-> Cardinality({i \in 1..Len(items) :
                                           IsOpenAt(items[i], currentDate)})] >>
         \o DailyOpenCountsFrom(items, currentDate + MinutesPerDay, endDate)

calculateDailyOpenCounts(items, startDate, endDate) ==
    DailyOpenCountsFrom(items, EndOfDay(startDate), endDate)

\* A variant of the test for missing data that looks at the metadata only.
NoItemDataByMeta == ~kvMeta.exists

\* if (!meta || Object.keys(items).length === 0)
NoItemData == ~kvMeta.exists \/ DOMAIN ItemsOf(kvItems) = {}

\* The response of GET /api/github-items?type=..&startDate=..&endDate=..
GitHubItemsResponse(type, startDate, endDate) ==
    IF type \notin {"issues", "prs"}
    THEN [status |-> 400, error |-> "type must be issues or prs"]
    ELSE IF startDate = NoDate \/ endDate = NoDate
    THEN [status |-> 400, error |-> "startDate and endDate are required"]
    ELSE IF NoItemData
    THEN [status |-> 404, needsSync |-> TRUE]
    ELSE LET targetType == IF type = "issues" THEN "issue" ELSE "pr"
             filteredItems == SelectSeq(ValuesOf(ItemsOf(kvItems)),
                                        LAMBDA item : item.type = targetType)
         IN  [status |-> 200,
              type |-> type,
              dateRange |-> [start |-> startDate, end |-> endDate],
              data |-> calculateDailyOpenCounts(filteredItems, ParseDate(startDate),
                                                ParseDate(endDate)),
              totalItems |-> Len(filteredItems),
              oldestDate |-> kvMeta.oldestDate,
              lastSync |-> kvMeta.lastSync]

\* GET /api/github-items.  A request answered 400 is answered alike whatever
\* its other parameters are: one request stands for those of a bad type, and
\* three for those that lack a date.
handleGitHubItems(p) ==
    /\ ci[p].pc = "idle"
    /\ \E type \in {"issues", "prs", "none"}, startDate, endDate \in ViewDays \cup {NoDate} :
         /\ startDate # NoDate /\ endDate # NoDate => startDate <= endDate
         /\ type = "none" => startDate = OpenDay /\ endDate = CloseDay
         /\ startDate = NoDate \/ endDate = NoDate =>
                type = "issues" /\ {startDate, endDate} \subseteq {NoDate, OpenDay}
         /\ ci' = [ci EXCEPT ![p] =
                      [IdleCI EXCEPT !.pc = "done", !.result = "github-items",
                                     !.data = GitHubItemsResponse(type, startDate,
                                                                  endDate)]]
    /\ UNCHANGED <<now, failures, noRuns, kvIndex, kvDaily, kvCurrent>>
    /\ UNCHANGED <<runs, itemVars>>

\* The response of GET /api/issue-triage
IssueTriageResponse ==
    IF NoItemData
    THEN [status |-> 200, untriaged |-> <<>>, awaitingDev |-> <<>>,
          needsSync |-> TRUE]
    ELSE LET openIssues == SelectSeq(ValuesOf(ItemsOf(kvItems)),
                               LAMBDA item : item.type = "issue" /\ item.state = "open")
             awaitingDev == SelectSeq(openIssues,
                               LAMBDA issue : HasLabelOf(AWAITING_DEV_LABELS, issue))
             untriaged == SelectSeq(openIssues,
                               LAMBDA issue : /\ ~HasLabelOf(AWAITING_DEV_LABELS, issue)
                                              /\ ~HasLabelOf(BLOCKING_LABELS, issue))
         IN  [status |-> 200,
              untriaged |-> Slice(LatestFirst(untriaged, "createdAt"), TriageLimit),
              awaitingDev |-> Slice(LatestFirst(awaitingDev, "updatedAt"), TriageLimit),
              totalUntriaged |-> Len(untriaged),
              totalAwaitingDev |-> Len(awaitingDev),
              lastSync |-> kvMeta.lastSync]

\* GET /api/issue-triage
handleIssueTriage(p) ==
    /\ ci[p].pc = "idle"
    /\ ci' = [ci EXCEPT ![p] =
                 [IdleCI EXCEPT !.pc = "done", !.result = "issue-triage",
                                !.data = IssueTriageResponse]]
    /\ UNCHANGED <<now, failures, noRuns, kvIndex, kvDaily, kvCurrent>>
    /\ UNCHANGED <<runs, itemVars>>

\* calculateDailyLabelCounts: while (currentDate <= endDate), with the
\* comparisons of calculateDailyOpenCounts; one point per day
RECURSIVE DailyLabelCountsFrom(_, _, _, _)
DailyLabelCountsFrom(issues, allLabels, currentDate, endDate) ==
    IF currentDate >= endDate THEN <<>>
    ELSE LET open == {i \in 1..Len(issues) :
                         /\ issues[i].createdAt <= currentDate
                         /\ \/ ~issues[i].closedAt.set
                            \/ issues[i].closedAt.at > currentDate}
         IN  << [timestamp |-> currentDate,
                 openCount |-> Cardinality(open),
                 labelCounts |-> [label \in allLabels |->
                                     Cardinality({i \in open :
                                                     label \in issues[i].labels})]] >>
             \o DailyLabelCountsFrom(issues, allLabels, currentDate + MinutesPerDay,
                                     endDate)

calculateDailyLabelCounts(issues, startDate, endDate) ==
    LET allLabels == UNION {issues[i].labels : i \in 1..Len(issues)}
        points == DailyLabelCountsFrom(issues, allLabels, EndOfDay(startDate), endDate)
    IN  [timestamps |-> [d \in 1..Len(points) |-> points[d].timestamp],
         total |-> [d \in 1..Len(points) |-> points[d].openCount],
         labels |-> [label \in allLabels |->
                        [d \in 1..Len(points) |-> points[d].labelCounts[label]]]]

\* The response of GET /api/issue-label-stats?start=..&end=..
IssueLabelStatsResponse(startParam, endParam) ==
    IF NoItemData
    THEN [status |-> 200, timestamps |-> <<>>, total |-> <<>>, labels |-> <<>>,
          needsSync |-> TRUE]
    ELSE LET issues == SelectSeq(ValuesOf(ItemsOf(kvItems)),
                                 LAMBDA item : item.type = "issue")
             endDate == IF endParam # NoDate THEN ParseDate(endParam) ELSE now
             startDate == IF startParam # NoDate THEN ParseDate(startParam)
                          ELSE endDate - 30 * MinutesPerDay
             dataPoints == calculateDailyLabelCounts(issues, startDate, endDate)
         IN  [status |-> 200,
              timestamps |-> dataPoints.timestamps,
              total |-> dataPoints.total,
              labels |-> dataPoints.labels,
              lastSync |-> kvMeta.lastSync,
              totalIssues |-> Len(issues)]

\* GET /api/issue-label-stats
handleIssueLabelStats(p) ==
    /\ ci[p].pc = "idle"
    /\ \E startParam \in {NoDate, OpenDay}, endParam \in {NoDate, CloseDay + 1} :
         ci' = [ci EXCEPT ![p] =
                   [IdleCI EXCEPT !.pc = "done", !.result = "issue-label-stats",
                                  !.data = IssueLabelStatsResponse(startParam,
                                                                   endParam)]]
    /\ UNCHANGED <<now, failures, noRuns, kvIndex, kvDaily, kvCurrent>>
    /\ UNCHANGED <<runs, itemVars>>

\* Math.round(sum / count), of natural numbers
RoundedMean(sum, count) == (2 * sum + count) \div (2 * count)

\* The response of GET /api/pr-health?state=..&sort=..&order=..
PRHealthResponse(stateFilter, sortBy, order) ==
    IF NoItemData
    THEN [status |-> 200, prs |-> <<>>, needsSync |-> TRUE]
    ELSE LET kept == SelectSeq(ValuesOf(ItemsOf(kvItems)),
                         LAMBDA item : /\ item.type = "pr"
                                       /\ stateFilter = "open" => item.state = "open")
             prs == [i \in 1..Len(kept) |->
                        [number |-> kept[i].number,
                         state |-> kept[i].state,
                         createdAt |-> kept[i].createdAt,
                         updatedAt |-> kept[i].updatedAt,
                         labels |-> kept[i].labels,
                         commentCount |-> kept[i].commentCount,
                         ageDays |-> (now - kept[i].createdAt) \div MinutesPerDay,
                         staleDays |-> (now - kept[i].updatedAt) \div MinutesPerDay]]
             Key(pr) == LET comparand == CASE sortBy = "age" -> pr.ageDays
                                           [] sortBy = "comments" -> pr.commentCount
                                           [] OTHER -> pr.staleDays
                        IN  IF order = "desc" THEN 0 - comparand ELSE comparand
             sorted == SortSeq(prs, LAMBDA a, b :
                                        \/ Key(a) < Key(b)
                                        \/ Key(a) = Key(b) /\ a.number < b.number)
             Sum(field) == LET total[i \in 0..Len(prs)] ==
                                   IF i = 0 THEN 0 ELSE total[i - 1] + prs[i][field]
                           IN  total[Len(prs)]
         IN  [status |-> 200,
              prs |-> Slice(sorted, PRHealthLimit),
              total |-> Len(prs),
              stats |-> [avgAgeDays |-> IF Len(prs) > 0
                                        THEN RoundedMean(Sum("ageDays"), Len(prs))
                                        ELSE 0,
                         avgStaleDays |-> IF Len(prs) > 0
                                          THEN RoundedMean(Sum("staleDays"), Len(prs))
                                          ELSE 0,
                         staleCount |-> Cardinality({i \in 1..Len(prs) :
                                                        prs[i].staleDays > 14}),
                         veryStaleCount |-> Cardinality({i \in 1..Len(prs) :
                                                            prs[i].staleDays > 30})],
              lastSync |-> kvMeta.lastSync]

\* GET /api/pr-health
handlePRHealth(p) ==
    /\ ci[p].pc = "idle"
    /\ \E stateFilter \in {"open", "all"}, sortBy \in {"stale", "age", "comments"},
          order \in {"desc", "asc"} :
         ci' = [ci EXCEPT ![p] =
                   [IdleCI EXCEPT !.pc = "done", !.result = "pr-health",
                                  !.data = PRHealthResponse(stateFilter, sortBy,
                                                            order)]]
    /\ UNCHANGED <<now, failures, noRuns, kvIndex, kvDaily, kvCurrent>>
    /\ UNCHANGED <<runs, itemVars>>

(***************************************************************************)
(* Bus factor.  percentage is the double (commits / totalCommits) * 100;   *)
(* the model keeps it exact, in units of 1/totalCommits percent.  For      *)
(* lists of up to five commits the sums of the doubles compare with 50 as  *)
(* the exact sums do; from six commits on they need not (2 of 6 and 1 of 6 *)
(* sum to 49.99999999999999).                                              *)
(***************************************************************************)
\* author: commit.author?.login || null
NoAuthor == ""

Authors == {"A", "B", "C"}

\* What fetchDirectoryCommits may return: the commits' authors, in order.
CommitLists == UNION {[1..len -> Authors \cup {NoAuthor}] : len \in 0..MaxCommits}

\* authorCounts: a Map, its entries in the order of their first set()
RECURSIVE AuthorCounts(_, _, _)
AuthorCounts(commits, i, counts) ==
    IF i > Len(commits) THEN counts
    ELSE LET author == commits[i].author
             at == {j \in 1..Len(counts) : counts[j].login = author}
         IN  AuthorCounts(commits, i + 1,
                 IF author = NoAuthor THEN counts
                 ELSE IF at = {}
                      THEN Append(counts, [login |-> author, commits |-> 1])
                      ELSE [counts EXCEPT ![Max(at)].commits = @ + 1])

\* entries.sort((a, b) => b.commits - a.commits): a stable sort
RECURSIVE ByCommitsDescending(_)
ByCommitsDescending(entries) ==
    IF entries = <<>> THEN <<>>
    ELSE LET most == Max({entries[j].commits : j \in 1..Len(entries)})
             first == Min({j \in 1..Len(entries) : entries[j].commits = most})
         IN  <<entries[first]>>
             \o ByCommitsDescending(SubSeq(entries, 1, first - 1)
                                    \o SubSeq(entries, first + 1, Len(entries)))

\* for (const author of sortedAuthors) { busFactor++; cumulativePercentage +=
\* author.percentage; if (cumulativePercentage >= 50) break; }
RECURSIVE BusFactorLoop(_, _, _, _, _)
BusFactorLoop(sortedAuthors, i, busFactor, cumulativePercentage, totalCommits) ==
    IF i > Len(sortedAuthors) THEN busFactor
    ELSE LET cumulative == cumulativePercentage + sortedAuthors[i].percentage
         IN  IF cumulative >= 50 * totalCommits
             THEN busFactor + 1
             ELSE BusFactorLoop(sortedAuthors, i + 1, busFactor + 1, cumulative,
                                totalCommits)

calculateBusFactor(commits) ==
    LET authorCounts == AuthorCounts(commits, 1, <<>>)
        totalCommits == Len(commits)
        sortedAuthors ==
            ByCommitsDescending([j \in 1..Len(authorCounts) |->
                [login |-> authorCounts[j].login,
                 commits |-> authorCounts[j].commits,
                 percentage |-> authorCounts[j].commits * 100]])
    IN  IF totalCommits = 0
        THEN [busFactor |-> 0, topContributors |-> <<>>]
        ELSE [busFactor |-> BusFactorLoop(sortedAuthors, 1, 0, 0, totalCommits),
              topContributors |-> Slice(sortedAuthors, 10)]

\* analyzeDirectoryBusFactor: the commits fetchDirectoryCommits returned for
\* a directory, and their analysis
analyzeDirectoryBusFactor(p) ==
    /\ ci[p].pc = "idle"
    /\ \E list \in CommitLists :
         LET commits == [i \in 1..Len(list) |-> [author |-> list[i]]]
             analysis == calculateBusFactor(commits)
         IN  ci' = [ci EXCEPT ![p] =
                       [IdleCI EXCEPT !.pc = "done", !.result = "bus-factor",
                                      !.data = [commits |-> commits,
                                                busFactor |-> analysis.busFactor,
                                                topContributors |->
                                                    analysis.topContributors]]]
    /\ UNCHANGED <<now, failures, noRuns, kvIndex, kvDaily, kvCurrent>>
    /\ UNCHANGED <<runs, itemVars>>

\* Some invocation of syncGitHubItems has yet to return.
Unfinished == \E s \in Procs : sy[s].pc # "done"

\* Upstream: an issue or a pull request is opened.
CreateItem ==
    /\ Unfinished
    /\ Len(upstream) < MaxItems
    /\ \E type \in {"issue", "pr"} :
         upstream' = Append(upstream, Opened(type, now))
    /\ UNCHANGED <<now, failures, kvItems, kvMeta, sy>>
    /\ UNCHANGED ciVars

\* Upstream: an item changes for the first time (a comment, a label, its
\* state).
UpdateItem ==
    /\ Unfinished
    /\ Cardinality({n \in 1..Len(upstream) :
                       upstream[n].updatedAt # upstream[n].createdAt}) < MaxUpdates
    /\ \E n \in 1..Len(upstream) :
         /\ upstream[n].updatedAt = upstream[n].createdAt
         /\ now > upstream[n].updatedAt
         /\ upstream' = [upstream EXCEPT ![n].updatedAt = now]
    /\ UNCHANGED <<now, failures, kvItems, kvMeta, sy>>
    /\ UNCHANGED ciVars

\* Time passes.
TickItems ==
    /\ Unfinished
    /\ now < 1 + MaxTicks * ClockStep
    /\ now' = now + ClockStep
    /\ UNCHANGED <<failures, upstream, kvItems, kvMeta, sy>>
    /\ UNCHANGED ciVars

\* No item sync takes part in the CI models.
ItemsAtRest ==
    /\ upstream = <<>>
    /\ kvItems = NoValue
    /\ kvMeta = NoValue
    /\ sy = [p \in Procs |-> IdleSync]

\* The id upstream gave the j-th job of the run: no two jobs share one.
JobId(runId, j) == 10 * runId + j

\* Upstream with one run on each of the days, created at midnight, whose
\* single job succeeded: the run list, newest first.
RECURSIVE DailyRuns(_)
DailyRuns(days) ==
    IF days = {} THEN <<>>
    ELSE LET d == Max(days)
         IN  << [id |-> d, created_at |-> ParseDate(d), jobs_ok |-> TRUE,
                 jobs |-> << [id |-> JobId(d, 1), name |-> "build",
                              conclusion |-> "success"] >>] >>
             \o DailyRuns(days \ {d})

\* The snapshot a sync wrote at midnight of the day d, from the runs
\* upstream listed then.
SyncedSnapshot(runList, d) ==
    LET listed == SelectSeq(runList, LAMBDA run : run.created_at <= ParseDate(d))
    IN  Snapshot(d, "sync", DailyJobs(JobStatsOf(listed, ParseDate(d))))

\* Upstream has runs on every day of the horizon, or on every day but one.
NoRunChoices ==
    {{}} \cup {{d} : d \in (StartDay - SixMonthsDays) .. (StartDay - 1)}

(***************************************************************************)
(* The CI model: a fresh deployment, or one whose cron ran two days ago.   *)
(***************************************************************************)
InitCI ==
    /\ now = ParseDate(StartDay)
    /\ failures = 0
    /\ noRuns \in NoRunChoices
    /\ runs = DailyRuns(Lookback \ noRuns)
    /\ \/ kvIndex = NoValue /\ kvDaily = NoDaily
       \/ /\ kvIndex = IndexData(<<StartDay - 2>>)
          /\ kvDaily = PutDaily(NoDaily, StartDay - 2,
                                SyncedSnapshot(runs, StartDay - 2))
    /\ kvCurrent = NoValue
    /\ ci = [p \in Procs |-> IdleCI]
    /\ ItemsAtRest

NextCI ==
    \/ Tick
    \/ \E p \in Procs :
         \/ handleRefresh(p)
         \/ fetchAndStoreCIData_daily(p)
         \/ fetchAndStoreCIData_indexGet(p)
         \/ fetchAndStoreCIData_indexPut(p)
         \/ fetchAndStoreCIData_current(p)
         \/ handleRefresh_gaps(p)
         \/ backfillHistoricalData_day(p)
         \/ addDateToIndex_get(p)
         \/ addDateToIndex_put(p)

SpecCI == InitCI /\ [][NextCI]_vars


(***************************************************************************)
(* The gap model: getMissingDateRanges and backfillHistoricalData applied  *)
(* to every date index the store can hold: none, or up to IndexCap dates,  *)
(* none later than today, each with its snapshot.                          *)
(***************************************************************************)
InitGaps ==
    /\ now = ParseDate(StartDay)
    /\ failures = 0
    /\ noRuns \in NoRunChoices
    /\ runs = DailyRuns(Lookback \ noRuns)
    /\ \E S \in SUBSET ((StartDay - SixMonthsDays - 1) .. StartDay) :
         /\ Cardinality(S) <= IndexCap
         /\ kvIndex = IF S = {} THEN NoValue ELSE IndexData(SeqOfSet(S))
         /\ kvDaily = [d \in S |-> SyncedSnapshot(runs, d)]
    /\ kvCurrent = NoValue
    /\ ci = [p \in Procs |-> IF p = 1
                             THEN [IdleCI EXCEPT !.pc = "gaps", !.backfill = TRUE]
                             ELSE IdleCI]
    /\ ItemsAtRest

NextGaps ==
    \/ Tick
    \/ handleRefresh_gaps(1)
    \/ backfillHistoricalData_day(1)
    \/ addDateToIndex_get(1)
    \/ addDateToIndex_put(1)

SpecGaps == InitGaps /\ [][NextGaps]_vars

(***************************************************************************)
(* The statistics model: a fresh deployment at noon, and an upstream whose *)
(* run list is drawn from the lists of at most MaxRuns runs of one job     *)
(* each: all created today, all on the last day before the rolling window, *)
(* all on that day but the oldest, created the day before, or one a day    *)
(* going back; the job is "build", or "test" in the oldest                 *)
(* run; the jobs conclude in success or failure, but for one of another    *)
(* conclusion at most; the jobs request fails for one run at most.         *)
(* Invocations of the handlers do not overlap, and none is made after one  *)
(* that ended in an error: a refresh, with or without backfill, is         *)
(* followed by a sync without backfill (that of scheduled()) or by a       *)
(* request to /api/ci-data.                                                *)
(***************************************************************************)
\* The creation days of n runs, newest first.
RunDays(n) ==
    { [i \in 1..n |-> StartDay],
      [i \in 1..n |-> StartDay - RollingWindowDays],
      [i \in 1..n |-> StartDay - RollingWindowDays - (IF i = n THEN 1 ELSE 0)],
      [i \in 1..n |-> StartDay - (i - 1)] }

RunList(n, days, conclusion, names, failing) ==
    [i \in 1..n |->
        [id |-> n + 1 - i,
         created_at |-> ParseDate(days[i]) + (n - i),
         jobs_ok |-> i \notin failing,
         jobs |-> << [id |-> JobId(n + 1 - i, 1), name |-> names[i],
                      conclusion |-> conclusion[i]] >>]]

InitStats ==
    /\ now = ParseDate(StartDay) + MinutesPerDay \div 2
    /\ \E n \in 0..MaxRuns :
         \E days \in RunDays(n), conclusion \in [1..n -> Conclusions],
            names \in { [i \in 1..n |-> "build"],
                        [i \in 1..n |-> IF i = n THEN "test" ELSE "build"] },
            failing \in {{}} \cup {{i} : i \in 1..n} :
              /\ Cardinality({i \in 1..n :
                                 conclusion[i] \notin {"success", "failure"}}) <= 1
              /\ runs = RunList(n, days, conclusion, names, failing)
              /\ failures = Cardinality(failing)
    /\ noRuns = {d \in Lookback : Len(RunsCreatedOn(runs, d)) = 0}
    /\ kvIndex = NoValue
    /\ kvDaily = NoDaily
    /\ kvCurrent = NoValue
    /\ ci = [p \in Procs |-> IdleCI]
    /\ ItemsAtRest

\* No other invocation is under way, and none has failed.
AtRest(p) ==
    \A q \in Procs \ {p} :
        ci[q].pc = "idle" \/ (ci[q].pc = "done" /\ ci[q].result # "error")

NextStats ==
    \E p \in Procs :
        \/ AtRest(p) /\ handleRefresh(p) /\ (p = 1 \/ ~ci'[p].backfill)
        \/ AtRest(p) /\ handleCIData(p)
        \/ fetchAndStoreCIData_daily(p)
        \/ fetchAndStoreCIData_indexGet(p)
        \/ fetchAndStoreCIData_indexPut(p)
        \/ fetchAndStoreCIData_current(p)
        \/ handleRefresh_gaps(p)
        \/ backfillHistoricalData_day(p)
        \/ addDateToIndex_get(p)
        \/ addDateToIndex_put(p)

SpecStats == InitStats /\ [][NextStats]_vars

(***************************************************************************)
(* The item model: upstream holds a page of issues created in the last     *)
(* minute of the day before; the store is empty (a fresh deployment) or    *)
(* mirrors them as of a sync that ended in that minute.  Invocations of    *)
(* syncGitHubItems do not overlap.                                         *)
(***************************************************************************)
\* The last minute of the day before the one the clock starts on.
Eve == -1

MirrorOf(up) == [n \in 1..Len(up) |-> Transform(NodeOf(up, n), up[n].type)]

InitItems ==
    /\ now = 1
    /\ failures = 0
    /\ noRuns = {}
    /\ runs = <<>>
    /\ kvIndex = NoValue
    /\ kvDaily = NoDaily
    /\ kvCurrent = NoValue
    /\ ci = [p \in Procs |-> IdleCI]
    /\ upstream = [n \in 1..PageSize |-> Opened("issue", Eve)]
    /\ \/ kvItems = NoValue /\ kvMeta = NoValue
       \/ /\ kvItems = [exists |-> TRUE, items |-> MirrorOf(upstream)]
          /\ kvMeta = NewMeta(MirrorOf(upstream), Eve)
    /\ sy = [p \in Procs |-> IdleSync]

NextItems ==
    \/ TickItems
    \/ CreateItem
    \/ UpdateItem
    \/ \E s \in Procs :
         \/ (\A o \in Procs \ {s} : ~Running(sy[o])) /\ syncGitHubItems(s)
         \/ deleteGitHubItemsFromKV(s)
         \/ loadGitHubItemsFromKV(s)
         \/ loadGitHubItemsMetaFromKV(s)
         \/ performFullSync_issues(s)
         \/ performFullSync_prs(s)
         \/ fetchNewItems_issues(s)
         \/ fetchNewItems_prs(s)
         \/ fetchUpdatedItems_issues(s)
         \/ fetchUpdatedItems_prs(s)
         \/ saveGitHubItemsToKV(s)

SpecItems == InitItems /\ [][NextItems]_vars

(***************************************************************************)
(* The race model: the same start, the clock at rest, and invocations of   *)
(* syncGitHubItems that overlap (a POST during the scheduled sync).        *)
(***************************************************************************)
NextRace ==
    \/ CreateItem
    \/ \E s \in Procs :
         \/ syncGitHubItems(s)
         \/ deleteGitHubItemsFromKV(s)
         \/ loadGitHubItemsFromKV(s)
         \/ loadGitHubItemsMetaFromKV(s)
         \/ performFullSync_issues(s)
         \/ performFullSync_prs(s)
         \/ fetchNewItems_issues(s)
         \/ fetchNewItems_prs(s)
         \/ fetchUpdatedItems_issues(s)
         \/ fetchUpdatedItems_prs(s)
         \/ saveGitHubItemsToKV(s)

SpecRace == InitItems /\ [][NextRace]_vars

(***************************************************************************)
(* The view model: a fresh deployment and an upstream that holds up to     *)
(* MaxItems items, each of one of a few kinds, opened on the day OpenDay   *)
(* and, if closed, closed on the day CloseDay.  One sync mirrors them; a   *)
(* read endpoint is queried before, during or after it.                    *)
(***************************************************************************)
ItemKinds ==
    { [type |-> "issue", state |-> "OPEN", labels |-> {"bug"}, comments |-> 0],
      [type |-> "issue", state |-> "OPEN", labels |-> {"blocked"}, comments |-> 1],
      [type |-> "issue", state |-> "OPEN", labels |-> {"Needs Reproduction"},
       comments |-> 0],
      [type |-> "issue", state |-> "CLOSED", labels |-> {"awaiting dev response"},
       comments |-> 2],
      [type |-> "pr", state |-> "OPEN", labels |-> {"awaiting dev response"},
       comments |-> 2],
      [type |-> "pr", state |-> "CLOSED", labels |-> {}, comments |-> 0],
      [type |-> "pr", state |-> "MERGED", labels |-> {}, comments |-> 1] }

\* The n-th item upstream, of the kind k: opened in the n-th minute of
\* OpenDay; closed or merged, if it is, in the n-th minute of CloseDay.
ItemOfKind(k, n) ==
    LET closedAt == IF k.state = "OPEN" THEN NoTime
                    ELSE Time(ParseDate(CloseDay) + n)
    IN  [type |-> k.type,
         createdAt |-> ParseDate(OpenDay) + n,
         updatedAt |-> IF closedAt.set THEN closedAt.at ELSE ParseDate(OpenDay) + n,
         state |-> k.state,
         merged |-> k.state = "MERGED",
         closedAt |-> closedAt,
         mergedAt |-> IF k.state = "MERGED" THEN closedAt ELSE NoTime,
         labels |-> k.labels,
         comments |-> k.comments]

InitViews ==
    /\ now = ParseDate(LastViewDay)
    /\ failures = 0
    /\ noRuns = {}
    /\ runs = <<>>
    /\ kvIndex = NoValue
    /\ kvDaily = NoDaily
    /\ kvCurrent = NoValue
    /\ ci = [p \in Procs |-> IdleCI]
    /\ \E len \in 1..MaxItems : \E kinds \in [1..len -> ItemKinds] :
         upstream = [n \in 1..len |-> ItemOfKind(kinds[n], n)]
    /\ kvItems = NoValue
    /\ kvMeta = NoValue
    /\ sy = [p \in Procs |-> IdleSync]

\* No read endpoint has answered yet.
Unanswered == ci[1].pc = "idle"

NextViews ==
    \/ handleGitHubItems(1)
    \/ handleIssueTriage(1)
    \/ handleIssueLabelStats(1)
    \/ handlePRHealth(1)
    \/ Unanswered /\ syncGitHubItems(1)
    \/ Unanswered /\ deleteGitHubItemsFromKV(1)
    \/ Unanswered /\ loadGitHubItemsFromKV(1)
    \/ Unanswered /\ loadGitHubItemsMetaFromKV(1)
    \/ Unanswered /\ performFullSync_issues(1)
    \/ Unanswered /\ performFullSync_prs(1)
    \/ Unanswered /\ saveGitHubItemsToKV(1)

SpecViews == InitViews /\ [][NextViews]_vars

(***************************************************************************)
(* The bus-factor model: one directory is analysed, whatever commits       *)
(* upstream lists for it.                                                  *)
(***************************************************************************)
InitBus ==
    /\ now = ParseDate(StartDay)
    /\ failures = 0
    /\ noRuns = {}
    /\ runs = <<>>
    /\ kvIndex = NoValue
    /\ kvDaily = NoDaily
    /\ kvCurrent = NoValue
    /\ ci = [p \in Procs |-> IdleCI]
    /\ ItemsAtRest

NextBus == analyzeDirectoryBusFactor(1)

SpecBus == InitBus /\ [][NextBus]_vars

(***************************************************************************)
(* The batch model: the job lists of a run list are requested in batches.  *)
(* Upstream lists MaxBatchRuns runs created today, of one job each; the    *)
(* job of the second and of the last run failed, the others succeeded, and *)
(* the jobs request of the third run fails.  An invocation is a CI sync or *)
(* the backfill of today.  Its batch is the number i of runs of the        *)
(* batches it is through with, the requests in flight and the order in     *)
(* which those of the batch settled; its data holds jobStats.              *)
(***************************************************************************)
\* const batchSize = 8
batchSize == 8

MaxBatchRuns == batchSize + 1

\* const runs = runsData.workflow_runs || []: the list the invocation
\* fetched, that of the branch or that of the day
RunListOf(r) == IF r.backfill THEN RunsCreatedOn(runs, r.dateStr) ELSE runs

\* runs.slice(i, i + batchSize), as the positions of its runs in the list
BatchOf(r) ==
    (r.batch.i + 1) .. (IF r.batch.i + batchSize < Len(RunListOf(r))
                        THEN r.batch.i + batchSize ELSE Len(RunListOf(r)))

\* What the request to the jobs_url of the run resolves to: the job list,
\* or null when the request failed or was answered with a non-OK status.
JobsData(run) == [ok |-> run.jobs_ok, jobs |-> run.jobs]

\* A variant of the batch's responses: in the order in which the requests
\* settled.
jobsResponsesAsSettled(r) ==
    [j \in 1..Len(r.batch.settled) |-> JobsData(RunListOf(r)[r.batch.settled[j]])]

\* await Promise.all(batch.map(run => fetch(run.jobs_url, ...))): the
\* responses in the order of the batch
jobsResponses(r) ==
    [j \in 1..Len(r.batch.settled) |-> JobsData(RunListOf(r)[r.batch.i + j])]

\* batch[j] with jobsResponses[j] for its job list, as the loop over the
\* batch pairs them
Answered(r) ==
    LET responses == jobsResponses(r)
    IN  [j \in 1..Len(r.batch.settled) |->
            [RunListOf(r)[r.batch.i + j] EXCEPT !.jobs_ok = responses[j].ok,
                                                !.jobs = responses[j].jobs]]

\* The run list has been fetched: that of fetchAndStoreCIData, or that of
\* the day of one iteration of backfillHistoricalData's loop; jobStats is
\* empty.
fetchRuns(p) ==
    /\ ci[p].pc = "idle"
    /\ \E backfill \in BOOLEAN :
         ci' = [ci EXCEPT ![p] =
                  [IdleCI EXCEPT
                     !.pc = "batch", !.backfill = backfill,
                     !.dateStr = DateStr(now),
                     !.data = [exists |-> TRUE, jobStats |-> <<>>],
                     !.batch = [exists |-> TRUE, i |-> 0, inFlight |-> {},
                                settled |-> <<>>]]]
    /\ UNCHANGED <<now, failures, noRuns, kvIndex, kvDaily, kvCurrent>>
    /\ UNCHANGED <<runs, itemVars>>

\* for (let i = 0; i < runs.length; i += batchSize): batch.map(..) issues the
\* requests of the batch; after the last batch the rates are calculated.
issueBatch(p) ==
    /\ ci[p].pc = "batch"
    /\ ci' = [ci EXCEPT ![p] =
                IF ci[p].batch.i < Len(RunListOf(ci[p]))
                THEN [ci[p] EXCEPT !.pc = "await",
                                   !.batch.inFlight = BatchOf(ci[p]),
                                   !.batch.settled = <<>>]
                ELSE [ci[p] EXCEPT
                        !.pc = "done", !.result = "ok",
                        !.data = IF ci[p].backfill
                                 THEN Snapshot(ci[p].dateStr, "backfill",
                                               BackfillJobsOf(ci[p].data.jobStats))
                                 ELSE [exists |-> TRUE,
                                       jobStats |-> RatedJobStats(ci[p].data.jobStats),
                                       lastUpdated |-> now,
                                       totalRuns |-> Len(RunListOf(ci[p]))]]]
    /\ UNCHANGED <<now, failures, noRuns, kvIndex, kvDaily, kvCurrent>>
    /\ UNCHANGED <<runs, itemVars>>

\* One request of the batch settles: .then(res => res.ok ? res.json() : null)
\* .catch(() => null) resolves.
settleRequest(p) ==
    /\ ci[p].pc = "await"
    /\ \E k \in ci[p].batch.inFlight :
         ci' = [ci EXCEPT ![p].batch.inFlight = @ \ {k},
                          ![p].batch.settled = Append(@, k)]
    /\ UNCHANGED <<now, failures, noRuns, kvIndex, kvDaily, kvCurrent>>
    /\ UNCHANGED <<runs, itemVars>>

\* Promise.all resolves once every request has: for (let j = 0; j <
\* batch.length; j++) counts the jobs of the batch.
processBatch(p) ==
    /\ ci[p].pc = "await"
    /\ ci[p].batch.inFlight = {}
    /\ ci' = [ci EXCEPT ![p] =
                [ci[p] EXCEPT
                   !.pc = "batch",
                   !.data.jobStats = ProcessRuns(@, Answered(ci[p]), 1,
                                                 IF ci[p].backfill THEN 0
                                                 ELSE SevenDaysAgo(now)),
                   !.batch.i = @ + batchSize,
                   !.batch.settled = <<>>]]
    /\ UNCHANGED <<now, failures, noRuns, kvIndex, kvDaily, kvCurrent>>
    /\ UNCHANGED <<runs, itemVars>>

InitBatch ==
    /\ now = ParseDate(StartDay) + MinutesPerDay \div 2
    /\ failures = 0
    /\ runs = RunList(MaxBatchRuns, [i \in 1..MaxBatchRuns |-> StartDay],
                      [i \in 1..MaxBatchRuns |->
                          IF i \in {2, MaxBatchRuns} THEN "failure" ELSE "success"],
                      [i \in 1..MaxBatchRuns |-> "build"], {3})
    /\ noRuns = Lookback \ {StartDay}
    /\ kvIndex = NoValue
    /\ kvDaily = NoDaily
    /\ kvCurrent = NoValue
    /\ ci = [p \in Procs |-> IdleCI]
    /\ ItemsAtRest

NextBatch ==
    \/ fetchRuns(1)
    \/ issueBatch(1)
    \/ settleRequest(1)
    \/ processBatch(1)

SpecBatch == InitBatch /\ [][NextBatch]_vars

(***************************************************************************)
(* The cron model: one invocation of scheduled(), at one of a few hours of *)
(* today, over an upstream of one run and a page of issues opened in the   *)
(* last minute of yesterday, and a store without CI data that holds no     *)
(* items or mirrors the issues.  The invocation's record in ci carries     *)
(* the CI data sync, its record in sy the items sync; the clock stays at   *)
(* the scheduled time.                                                     *)
(***************************************************************************)
\* The hours of the day at which the model has scheduled() invoked.
ScheduledHours == {0, 5, 6, 7, 18}

\* new Date(event.scheduledTime).getUTCHours()
getUTCHours(t) == (t % MinutesPerDay) \div 60

\* scheduled(event, env, ctx) is entered: if (hour === 6) it enters
\* fetchAndStoreCIData, whose return or throw ends the first try.
scheduled(p) ==
    /\ ci[p].pc = "idle"
    /\ sy[p].pc = "idle"
    /\ LET hour == getUTCHours(now)
       IN  ci' = [ci EXCEPT ![p] =
                    [IdleCI EXCEPT !.pc = IF hour = 6 THEN "runs" ELSE "done"]]
    /\ UNCHANGED <<now, failures, noRuns, kvIndex, kvDaily, kvCurrent>>
    /\ UNCHANGED <<runs, itemVars>>

\* A variant of scheduled() whose items sync is within the try of the CI
\* data sync.
scheduled_syncGitHubItemsInOneTry(p) ==
    /\ ci[p].pc = "done" /\ ci[p].result # "error"
    /\ syncGitHubItems(p)
    /\ ~sy'[p].force

\* try { const result = await syncGitHubItems(env, false) }, past the first
\* try and its catch
scheduled_syncGitHubItems(p) ==
    /\ ci[p].pc = "done"
    /\ syncGitHubItems(p)
    /\ ~sy'[p].force

InitCron ==
    /\ now \in {ParseDate(StartDay) + 60 * h : h \in ScheduledHours}
    /\ failures = 0
    /\ runs = DailyRuns({StartDay})
    /\ noRuns = Lookback \ {StartDay}
    /\ kvIndex = NoValue
    /\ kvDaily = NoDaily
    /\ kvCurrent = NoValue
    /\ ci = [p \in Procs |-> IdleCI]
    /\ upstream = [n \in 1..PageSize |-> Opened("issue", ParseDate(StartDay) - 1)]
    /\ \/ kvItems = NoValue /\ kvMeta = NoValue
       \/ /\ kvItems = [exists |-> TRUE, items |-> MirrorOf(upstream)]
          /\ kvMeta = NewMeta(MirrorOf(upstream), ParseDate(StartDay) - 1)
    /\ sy = [p \in Procs |-> IdleSync]

NextCron ==
    \/ scheduled(1)
    \/ fetchAndStoreCIData_daily(1)
    \/ fetchAndStoreCIData_indexGet(1)
    \/ fetchAndStoreCIData_indexPut(1)
    \/ fetchAndStoreCIData_current(1)
    \/ scheduled_syncGitHubItems(1)
    \/ loadGitHubItemsFromKV(1)
    \/ loadGitHubItemsMetaFromKV(1)
    \/ performFullSync_issues(1)
    \/ performFullSync_prs(1)
    \/ fetchNewItems_issues(1)
    \/ fetchNewItems_prs(1)
    \/ fetchUpdatedItems_issues(1)
    \/ fetchUpdatedItems_prs(1)
    \/ saveGitHubItemsToKV(1)

\* Every await of the invocation is resumed in the end.
SpecCron == InitCron /\ [][NextCron]_vars /\ WF_vars(NextCron)

(***************************************************************************)
(* Properties.                                                             *)
(***************************************************************************)
Today == DateStr(now)

IndexDates == DatesOf(kvIndex)

\* The gap covers the calendar day d.
GapHasDay(g, d) == DateStr(g.start) <= d /\ d <= DateStr(g.end)

StrictlyAscending(s) == \A i \in 1..(Len(s) - 1) : s[i] < s[i + 1]

\* The n greatest elements of S.
Newest(S, n) == {x \in S : Cardinality({y \in S : y > x}) < n}

\* C1: after a refresh with backfill=true in which every upstream request
\* succeeded (and no other invocation ran), a getMissingDateRanges call made
\* on the same day returns no gaps.
C1_GapFreeAfterBackfill ==
    \A p \in Procs :
        ( /\ ci[p].pc = "done" /\ ci[p].backfill /\ ci[p].result = "ok"
          /\ failures = 0
          /\ \A q \in Procs \ {p} : ci[q].pc = "idle"
          /\ Today = ci[p].dateKey )
        => getMissingDateRanges(kvIndex, now, now) = <<>>

Mirror == ItemsOf(kvItems)

\* The invocation returned, no other overlapped it and none was entered since.
Settled(s, result) ==
    /\ sy[s].pc = "done"
    /\ sy[s].result = result
    /\ sy[s].alone
    /\ sy[s].last

\* C2: after an incremental sync in which (as in every sync before it) every
\* request succeeded, every issue and pull request that existed upstream when
\* the sync was entered has an entry in the stored mirror.
C2_IncrementalSyncMirrorsEveryItem ==
    \A s \in Procs :
        (Settled(s, "ok") /\ sy[s].mode = "incremental" /\ failures = 0)
        => \A n \in 1..Len(upstream) :
               upstream[n].createdAt < sy[s].startTime => n \in DOMAIN Mirror

\* C3: after an incremental sync in which (as in every sync before it) every
\* request succeeded, every mirrored item is stored in the state upstream had
\* when the sync was entered, however long the previous sync lasted.
C3_NoUpdateMissedBetweenSyncs ==
    \A s \in Procs :
        (Settled(s, "ok") /\ sy[s].mode = "incremental" /\ failures = 0)
        => \A n \in DOMAIN Mirror :
               upstream[n].updatedAt < sy[s].startTime
               => Mirror[n].updatedAt = upstream[n].updatedAt

\* C4 (as claimed): after a sync that failed, in any mode, the stored
\* SyncMetadata and item mirror are the ones the sync found.
C4_FailedSyncLeavesStoreUntouched ==
    \A s \in Procs :
        Settled(s, "error")
        => kvItems = sy[s].before.items /\ kvMeta = sy[s].before.meta

\* C4 (amended): a sync that failed has put nothing in the store.  Without
\* force it performed no store operation, and the stored SyncMetadata and item
\* mirror are the ones it found; with force it performed its two deletes, and
\* the store holds neither SyncMetadata nor item mirror.
C4_FailedSyncPutsNothing ==
    \A s \in Procs :
        (sy[s].pc = "done" /\ sy[s].result = "error")
        => IF sy[s].force
           THEN /\ sy[s].ops = {"deleteItems", "deleteMeta"}
                /\ Settled(s, "error") => kvItems = NoValue /\ kvMeta = NoValue
           ELSE /\ sy[s].ops = {}
                /\ Settled(s, "error")
                   => kvItems = sy[s].before.items /\ kvMeta = sy[s].before.meta

\* C4 witness: an incremental sync failed over a stored mirror, after upstream
\* had changed.
C4_Witness ==
    \E s \in Procs :
        /\ Settled(s, "error")
        /\ sy[s].mode = "incremental"
        /\ sy[s].before.meta.exists
        /\ Len(upstream) > Cardinality(DOMAIN Mirror)

\* C5: once every sync invocation has returned successfully, whatever their
\* interleaving, the stored SyncMetadata describes the stored item mirror:
\* issueCount + prCount is the number of stored items and highestNumber is
\* their highest number.
C5_MetaMatchesMirror ==
    (\A s \in Procs : sy[s].pc = "done" /\ sy[s].result = "ok")
    => /\ kvMeta.exists /\ kvItems.exists
       /\ kvMeta.issueCount + kvMeta.prCount = Cardinality(DOMAIN Mirror)
       /\ kvMeta.highestNumber = Max({0} \cup DOMAIN Mirror)

\* C6: once both invocations have completed, the date index holds the date of
\* every stored daily snapshot (but for dates older than a full index keeps).
C6_NoDateLostByConcurrentInvocations ==
    (\A p \in Procs : ci[p].pc = "done")
    => \A d \in DOMAIN kvDaily :
           \/ Includes(IndexDates, d)
           \/ Len(IndexDates) = IndexCap /\ d < IndexDates[1]

\* C7: every write of the date index made from a list that is strictly
\* ascending stores a strictly ascending list (hence without duplicates) of at
\* most IndexCap dates: the newest of the dates read and the inserted date.
C7_DateIndexInvariant ==
    [][kvIndex' # kvIndex =>
         \E p \in Procs :
            /\ ci[p].pc \in {"indexPut", "addPut"}
            /\ ci'[p] # ci[p]
            /\ LET d == IF ci[p].pc = "indexPut" THEN ci[p].dateKey ELSE ci[p].dateStr
                   new == DatesOf(kvIndex')
               IN  StrictlyAscending(ci[p].dates)
                   => /\ StrictlyAscending(new)
                      /\ Len(new) <= IndexCap
                      /\ Range(new) = Newest(Range(ci[p].dates) \cup {d}, IndexCap)
    ]_vars

\* C7 witness: the index is full and a date that backfill stored and inserted
\* is older than its oldest entry (it was dropped).
C7_Witness ==
    /\ Len(IndexDates) = IndexCap
    /\ \E p \in Procs : \E i \in 1..Len(ci[p].fetched) :
          /\ ci[p].fetched[i] \in DOMAIN kvDaily
          /\ ci[p].fetched[i] < IndexDates[1]
          /\ ci[p].pc = "done"
          /\ failures = 0

\* C8 (as claimed): every date in the date index has a stored daily snapshot.
C8_IndexedDateHasSnapshot ==
    \A d \in Range(IndexDates) : d \in DOMAIN kvDaily

\* C8 (amended): every date in the date index has a stored daily snapshot,
\* unless upstream's run query for that date returns no workflow runs.
C8_IndexedDateHasSnapshotOrNoRuns ==
    \A d \in Range(IndexDates) : d \in DOMAIN kvDaily \/ d \in noRuns

\* C8 witness: backfill recorded a day without runs in the index, without a
\* snapshot.
C8_Witness ==
    \E d \in Range(IndexDates) : d \in noRuns /\ d \notin DOMAIN kvDaily

FromEmptyIndex(p) == ci[p].gaps # <<>> /\ ci[p].known = {}

\* C10 (as claimed): for a missing or empty index there is exactly one gap,
\* from the start of the retention horizon to today.
C10_EmptyIndexGapFromHorizon ==
    \A p \in Procs :
        FromEmptyIndex(p)
        => /\ Len(ci[p].gaps) = 1
           /\ DateStr(ci[p].gaps[1].start) \in {Today - IndexCap, Today - SixMonthsDays}
           /\ DateStr(ci[p].gaps[1].end) = Today

\* C10 (amended): for a missing or empty index there is exactly one gap, from
\* EmptyLookbackDays days before the current instant to the current instant.
C10_EmptyIndexGapFromLookback ==
    \A p \in Procs :
        FromEmptyIndex(p)
        => /\ Len(ci[p].gaps) = 1
           /\ DateStr(ci[p].gaps[1].start) = Today - EmptyLookbackDays
           /\ DateStr(ci[p].gaps[1].end) = Today
           /\ ci[p].gaps[1].end <= now

\* C10 witness: the gaps of an empty index were computed and backfilled.
C10_Witness ==
    \E p \in Procs : FromEmptyIndex(p) /\ ci[p].pc = "done"


\* Some gap runs from midnight of day a to midnight of day b.
ReportsGap(gaps, a, b) ==
    \E i \in 1..Len(gaps) :
        gaps[i].start = ParseDate(a) /\ gaps[i].end = ParseDate(b)

\* C11: for a non-empty date index, getMissingDateRanges reports, for each
\* pair of consecutive known dates more than one day apart, a gap from the day
\* after the earlier to the day before the later, and, when the latest known
\* date is more than one day before today, a gap from the day after it through
\* yesterday.
C11_GapsBetweenAndAfterKnownDates ==
    \A p \in Procs : \A skew \in {0, 1} :
        ci[p].pc = "gaps" /\ IndexDates # <<>>
        => LET gaps == getMissingDateRanges(kvIndex, now, now + skew)
               known == Range(IndexDates)
               last == Max(known)
           IN  /\ \A d, e \in known :
                      ( /\ e - d > 1
                        /\ ~\E x \in known : d < x /\ x < e )
                      => ReportsGap(gaps, d + 1, e - 1)
               /\ Today - last > 1 => ReportsGap(gaps, last + 1, Today - 1)

\* C11 witness: with the index [D-4, D-2] and today D, the reported gaps cover
\* D-3 and D-1..D-1.
C11_Witness ==
    \E p \in Procs :
        /\ ci[p].known = {Today - 4, Today - 2}
        /\ ReportsGap(ci[p].gaps, Today - 3, Today - 3)
        /\ ReportsGap(ci[p].gaps, Today - 1, Today - 1)

\* C12: once a backfill in which every request succeeded has processed a day
\* for which upstream returned zero runs, the day is in the stored date index
\* and no gap of a later getMissingDateRanges call includes it.
C12_ZeroRunDayNeverAGapAgain ==
    \A p \in Procs :
        (ci[p].pc = "done" /\ ci[p].result = "ok" /\ failures = 0)
        => \A i \in 1..Len(ci[p].fetched) :
               ci[p].fetched[i] \in noRuns
               => LET gaps == getMissingDateRanges(kvIndex, now, now)
                  IN  /\ Includes(IndexDates, ci[p].fetched[i])
                      /\ \A g \in 1..Len(gaps) :
                             ~GapHasDay(gaps[g], ci[p].fetched[i])

\* The calendar days backfillHistoricalData visits for the gap g.
DaysOfGap(g) ==
    {DateStr(g.start + k * MinutesPerDay) :
        k \in {j \in 0..(SixMonthsDays + 2) : g.start + j * MinutesPerDay <= g.end}}

\* Once the backfill has returned, every day of every gap it found was
\* fetched: no range was aborted.
EveryGapDayFetched ==
    \A p \in Procs :
        (ci[p].pc = "done" /\ ci[p].backfill)
        => \A g \in 1..Len(ci[p].gaps) :
               \A d \in DaysOfGap(ci[p].gaps[g]) : Includes(ci[p].fetched, d)

\* The step in which a day's run-list fetch fails writes neither a snapshot
\* nor the date index, and goes on to the next day (or returns after the
\* last one) without calling addDateToIndex; the day is still a gap then.
FailedFetchSkipsTheDay ==
    \A p \in Procs :
        (ci[p].pc = "day" /\ failures' # failures)
        => /\ kvDaily' = kvDaily /\ kvIndex' = kvIndex
           /\ ci'[p].pc \in {"day", "done"}
           /\ LET gaps == getMissingDateRanges(kvIndex', now', now')
              IN  \E g \in 1..Len(gaps) :
                      GapHasDay(gaps[g], DateStr(ci[p].currentDate))

\* C13: in a backfill, a failure of one day's run-list fetch skips only that
\* day: no snapshot and no date-index entry is written for it (it stays a
\* gap), and every remaining day of the range is still processed; the range
\* is never aborted.
C13_FailedDaySkippedOnly ==
    []EveryGapDayFetched /\ [][FailedFetchSkipsTheDay]_vars


\* The jobs named name, with a conclusion among those given, of the runs
\* of the list whose jobs request was answered.
FetchedJobs(runList, name, conclusions) ==
    UNION { { <<i, j>> : j \in {k \in 1..Len(runList[i].jobs) :
                                 /\ runList[i].jobs[k].name = name
                                 /\ runList[i].jobs[k].conclusion \in conclusions} } :
            i \in {r \in 1..Len(runList) : runList[r].jobs_ok} }

\* The statistics of the current snapshot stored by the CI sync.
CurrentJobStats == IF kvCurrent.exists THEN kvCurrent.jobStats ELSE <<>>

\* C14: in every JobStatistic produced by the CI sync, and in its last7Days
\* record, failures + successes = totalRuns, and cancelled and skipped jobs
\* are counted in no total, whatever conclusions upstream returns.
C14_TotalsAddUp ==
    \A n \in DOMAIN CurrentJobStats :
        LET stat == CurrentJobStats[n]
        IN  /\ stat.failures + stat.successes = stat.totalRuns
            /\ stat.last7Days.failures + stat.last7Days.successes
                   = stat.last7Days.totalRuns
            /\ stat.totalRuns
                   <= Cardinality(FetchedJobs(runs, n, Conclusions \ {"cancelled", "skipped"}))


\* The n entries of the list with the latest createdAt.
LatestEntries(list, n) ==
    {e \in Range(list) :
        Cardinality({o \in Range(list) : o.createdAt > e.createdAt}) < n}

\* C15: after a CI sync over runs returned newest first, each job's
\* recentFailures holds the failure entries with the latest run creation
\* timestamps among all of that job's failures in the fetched runs, as many
\* as are kept.
C15_RecentFailuresAreTheLatest ==
    \A n \in DOMAIN CurrentJobStats :
        LET failed == {runs[ij[1]] : ij \in FetchedJobs(runs, n, {"failure"})}
            all == SeqOfSet({run.created_at : run \in failed})
            entries == [i \in 1..Len(all) |-> [createdAt |-> all[i]]]
        IN  {e.createdAt : e \in Range(CurrentJobStats[n].recentFailures)}
                = {e.createdAt : e \in LatestEntries(entries, RecentFailuresKept)}


\* Every entry of the list is that of a run in which a job of the name
\* failed, and the list is no longer than what is kept.
OnlyKeptFailures(recentFailures, name) ==
    /\ Len(recentFailures) <= RecentFailuresKept
    /\ \A i \in 1..Len(recentFailures) :
           \E ij \in FetchedJobs(runs, name, {"failure"}) :
               /\ runs[ij[1]].id = recentFailures[i].runId
               /\ runs[ij[1]].created_at = recentFailures[i].createdAt

\* C16: recentFailures never has more entries than are kept (5 in the
\* source) and holds only entries of failed jobs, in the current snapshot, in
\* the daily snapshots written by sync and by backfill, and in the date-range
\* aggregate.
C16_RecentFailuresBounded ==
    /\ \A n \in DOMAIN CurrentJobStats :
           OnlyKeptFailures(CurrentJobStats[n].recentFailures, n)
    /\ \A d \in DOMAIN kvDaily : \A n \in DOMAIN kvDaily[d].jobs :
           OnlyKeptFailures(kvDaily[d].jobs[n].recentFailures, n)
    /\ \A p \in Procs :
           ci[p].result = "range"
           => \A n \in DOMAIN ci[p].data.jobStats :
                  OnlyKeptFailures(ci[p].data.jobStats[n].recentFailures, n)

\* C16 witness: a job failed in more runs than are kept, and the current
\* snapshot, a snapshot of the sync, one of backfill and an aggregate hold
\* failures of it.
C16_Witness ==
    \E n \in JobNames :
        /\ Cardinality(FetchedJobs(runs, n, {"failure"})) > RecentFailuresKept
        /\ n \in DOMAIN CurrentJobStats
        /\ Len(CurrentJobStats[n].recentFailures) = RecentFailuresKept
        /\ \E d, e \in DOMAIN kvDaily :
               /\ kvDaily[d].by = "sync" /\ kvDaily[e].by = "backfill"
               /\ n \in DOMAIN kvDaily[d].jobs /\ n \in DOMAIN kvDaily[e].jobs
               /\ Len(kvDaily[d].jobs[n].recentFailures) = RecentFailuresKept
               /\ Len(kvDaily[e].jobs[n].recentFailures) = RecentFailuresKept
        /\ \E p \in Procs :
               /\ ci[p].result = "range"
               /\ n \in DOMAIN ci[p].data.jobStats
               /\ Len(ci[p].data.jobStats[n].recentFailures) = RecentFailuresKept


\* C17: for every job name, the totals of the CI sync count exactly the
\* fetched jobs of that name that concluded in success or failure, and
\* failureRate is failures / (failures + successes) x 100, or 0 when
\* failures + successes is 0.
C17_TotalsCountSuccessesAndFailures ==
    /\ \A n \in JobNames :
           FetchedJobs(runs, n, {"success", "failure"}) # {} /\ kvCurrent.exists
           => n \in DOMAIN CurrentJobStats
    /\ \A n \in DOMAIN CurrentJobStats :
           LET stat == CurrentJobStats[n]
               failed == Cardinality(FetchedJobs(runs, n, {"failure"}))
               succeeded == Cardinality(FetchedJobs(runs, n, {"success"}))
           IN  /\ stat.totalRuns = failed + succeeded
               /\ stat.failures = failed
               /\ stat.successes = succeeded
               /\ failed + succeeded = 0 => stat.failureRate = 0
               /\ failed + succeeded > 0
                  => stat.failureRate = (failed * 100 * 100) \div (failed + succeeded)


\* The invocation was a refresh whose CI sync completed.
Synced(p) == ci[p].pc = "done" /\ ci[p].result = "ok"

C19_FailedRunListStoresNothing ==
    [][\A p \in Procs :
          (ci[p].pc = "runs" /\ failures' # failures)
          => /\ ci'[p].pc = "done" /\ ci'[p].result = "error"
             /\ kvCurrent' = kvCurrent
             /\ kvDaily' = kvDaily
             /\ kvIndex' = kvIndex]_vars

\* C19 witness: a sync has failed on its run list after an earlier sync had
\* filled the store, which still holds what that sync wrote.
C19_Witness ==
    \E p, q \in Procs :
        /\ ci[p].pc = "done" /\ ci[p].result = "error" /\ ci[p].dateKey = 0
        /\ Synced(q)
        /\ kvCurrent = ci[q].data
        /\ Today \in DOMAIN kvDaily /\ Includes(IndexDates, Today)


\* The runs of upstream whose jobs request is answered, as upstream would
\* list them if they were the only ones.
AnsweredRuns == SelectSeq(runs, LAMBDA run : run.jobs_ok)

\* C20: a failed or non-OK jobs request for one run only removes that run's
\* jobs from the statistics: the sync does not fail because of it, and the
\* jobStats it stores equal those computed over exactly the runs whose jobs
\* request succeeded.
C20_FailedJobsRequestDropsOnlyItsRun ==
    /\ kvCurrent.exists
       => kvCurrent.jobStats = JobStatsOf(AnsweredRuns, kvCurrent.lastUpdated)
    /\ \A p \in Procs :
           /\ Synced(p) => ci[p].data.jobStats = JobStatsOf(AnsweredRuns, now)
           /\ (ci[p].pc = "done" /\ ci[p].result = "error")
              => failures > Len(runs) - Len(AnsweredRuns)

\* C20 witness: a sync has completed and stored statistics although the jobs
\* request of one run failed, a run with a job that would have counted,
\* while that of another run succeeded and counts.
C20_Witness ==
    \E p \in Procs : \E i, j \in 1..Len(runs) :
        /\ Synced(p) /\ kvCurrent = ci[p].data
        /\ ~runs[i].jobs_ok /\ runs[i].jobs[1].conclusion = "failure"
        /\ runs[j].jobs_ok /\ runs[j].jobs[1].name = runs[i].jobs[1].name
        /\ runs[j].jobs[1].conclusion = "success"
        /\ kvCurrent.jobStats[runs[j].jobs[1].name].failures = 0


\* The request carried a date range: both startDate and endDate.
Ranged(params) == params.hasStartDate /\ params.hasEndDate

\* C21: a request to /api/ci-data without a date range (startDate or endDate
\* missing) is answered with the stored ci-data value whenever there is one,
\* in one step that reads the store only: no upstream request, no put; only
\* when there is no ci-data does the handler go on to fetchAndStoreCIData;
\* and the historical snapshots are aggregated exactly when both startDate
\* and endDate are given.
C21_ServesStoredCIData ==
    [][\A p \in Procs :
         (ci[p].pc = "idle" /\ ci'[p].params.given)
         => /\ UNCHANGED <<failures, kvIndex, kvDaily, kvCurrent>>
            /\ Ranged(ci'[p].params) <=> ci'[p].result = "range"
            /\ (~Ranged(ci'[p].params) /\ kvCurrent.exists)
               => /\ ci'[p].pc = "done"
                  /\ ci'[p].result = "kv-cache"
                  /\ ci'[p].data = kvCurrent
            /\ ci'[p].pc = "runs"
               <=> (~Ranged(ci'[p].params) /\ ~kvCurrent.exists)]_vars

\* ci-data is stored, and a request with a startDate only has been answered
\* with it.
C21_Witness ==
    \E p \in Procs :
        /\ ci[p].pc = "done" /\ ci[p].result = "kv-cache"
        /\ ci[p].params.hasStartDate /\ ~ci[p].params.hasEndDate
        /\ kvCurrent.exists /\ ci[p].data = kvCurrent
        /\ Len(runs) > 0

\* The sum of f[d] over the days d of the set S.
RECURSIVE SumOver(_, _)
SumOver(S, f) ==
    IF S = {} THEN 0
    ELSE LET d == CHOOSE x \in S : TRUE
         IN  f[d] + SumOver(S \ {d}, f)

NoDuplicates(list, key(_)) ==
    \A i, j \in 1..Len(list) : key(list[i]) = key(list[j]) => i = j

\* What a response to a query for a range of dates must hold for the job
\* name, given the date index and the snapshots it was computed from.
AggregatesSnapshots(response, indexData, daily, name) ==
    LET startDateStr == DateStr(response.dateRange.start)
        endDateStr == DateStr(response.dateRange.end)
        days == {d \in Range(DatesOf(indexData)) \cap DOMAIN daily :
                    /\ startDateStr <= d /\ d <= endDateStr
                    /\ name \in DOMAIN daily[d].jobs}
        stat == response.jobStats[name]
        collected == UNION {Range(daily[d].jobs[name].recentFailures) : d \in days}
        seen == UNION {Range(daily[d].jobs[name].instances) : d \in days}
        kept == Range(stat.recentFailures)
    IN  /\ days # {}
        /\ stat.failures = SumOver(days, [d \in days |-> daily[d].jobs[name].failures])
        /\ stat.successes = SumOver(days, [d \in days |-> daily[d].jobs[name].successes])
        /\ NoDuplicates(stat.instances, LAMBDA inst : inst.jobId)
        /\ {inst.jobId : inst \in Range(stat.instances)}
               = {inst.jobId : inst \in seen}
        /\ Range(stat.instances) \subseteq seen
        /\ NoDuplicates(stat.recentFailures, LAMBDA fail : fail.runId)
        /\ Len(stat.recentFailures) <= RecentFailuresKept
        /\ kept \subseteq collected
        /\ \A fail \in collected :
               \/ \E k \in kept : k.runId = fail.runId
               \/ /\ Len(stat.recentFailures) = RecentFailuresKept
                  /\ \A k \in kept : k.createdAt >= fail.createdAt

\* C22: the response to a query for a range of dates holds, for each job of
\* the snapshots of the indexed dates in the range, the sums of the
\* snapshots' failures and successes, every instance of the snapshots once per
\* jobId, and, once per runId, the RecentFailuresKept failure entries of the
\* snapshots with the latest createdAt (all of them if there are fewer).
C22_RangeQueryAggregates ==
    [][\A p \in Procs :
         (ci[p].pc = "idle" /\ ci'[p].result = "range"
          /\ "dateRange" \in DOMAIN ci'[p].data)
         => LET response == ci'[p].data
                inRange == {d \in Range(DatesOf(kvIndex)) \cap DOMAIN kvDaily :
                               /\ DateStr(response.dateRange.start) <= d
                               /\ d <= DateStr(response.dateRange.end)}
            IN  /\ DOMAIN response.jobStats
                       = UNION {DOMAIN kvDaily[d].jobs : d \in inRange}
                /\ \A name \in DOMAIN response.jobStats :
                       AggregatesSnapshots(response, kvIndex, kvDaily, name)]_vars

\* A range of two snapshots has been asked for which hold the same instance
\* of a job, and more failures of it than are kept: one of them is left out
\* of the response.
C22_Witness ==
    \E p \in Procs :
        /\ ci[p].pc = "done" /\ ci[p].result = "range"
        /\ "dateRange" \in DOMAIN ci[p].data
        /\ "build" \in DOMAIN ci[p].data.jobStats
        /\ LET stat == ci[p].data.jobStats["build"]
               days == {d \in DOMAIN kvDaily :
                           /\ ParseDate(d) >= ci[p].data.dateRange.start
                           /\ ParseDate(d) <= ci[p].data.dateRange.end
                           /\ "build" \in DOMAIN kvDaily[d].jobs}
           IN  /\ Len(stat.recentFailures) = RecentFailuresKept
               /\ \E d \in days :
                      \E fail \in Range(kvDaily[d].jobs["build"].recentFailures) :
                          \A k \in Range(stat.recentFailures) :
                              k.runId # fail.runId
               /\ \E d, e \in days :
                      /\ d # e
                      /\ Range(kvDaily[d].jobs["build"].instances)
                             \cap Range(kvDaily[e].jobs["build"].instances) # {}

\* The mode of a sync is decided: full when force is set or no SyncMetadata is
\* stored, incremental otherwise.
ModeDecided(s) ==
    (sy[s].mode = "none" /\ sy'[s].mode # "none")
    => (sy'[s].mode = "full" <=> (sy[s].force \/ ~kvMeta.exists))

\* The stored mirror holds the upstream item n, as an item of its type.
Mirrored(n) ==
    /\ n \in DOMAIN Mirror
    /\ Mirror[n].number = n
    /\ Mirror[n].type = upstream[n].type
    /\ Mirror[n].createdAt = upstream[n].createdAt

\* C23: a sync runs in full mode exactly when force is set or no SyncMetadata
\* is stored; after a full sync whose every page request succeeded, the stored
\* mirror holds an entry for every issue and pull request upstream held when
\* the sync was entered (each is a node of one of the pages), and SyncMetadata
\* is stored.
C23_FullSyncMirrorsEveryItem ==
    /\ [](\A s \in Procs :
            (Settled(s, "ok") /\ sy[s].mode = "full")
            => /\ kvMeta.exists /\ kvItems.exists
               /\ \A n \in 1..Len(upstream) :
                      upstream[n].createdAt < sy[s].startTime => Mirrored(n))
    /\ [][\A s \in Procs : ModeDecided(s)]_vars

\* A full sync has returned that took more than one page of issues, the last
\* of them opened before the sync was entered.
C23_Witness ==
    \E s \in Procs :
        /\ Settled(s, "ok") /\ sy[s].mode = "full"
        /\ Cardinality(NumbersOf("issue")) > PageSize
        /\ \A n \in 1..Len(upstream) :
               upstream[n].createdAt < sy[s].startTime /\ Mirrored(n)


\* A step of the update pass adds to updatedItems the number of items the
\* invocation already held whose updatedAt the step changed.
CountsUpdated(s) ==
    (sy[s].pc \in {"updIssues", "updPRs"} /\ sy'[s].pc # "done")
    => sy'[s].updatedItems
           = sy[s].updatedItems
             + Cardinality({n \in DOMAIN sy[s].items :
                               sy'[s].items[n].updatedAt # sy[s].items[n].updatedAt})

\* The passes of an incremental sync are over, and upstream holds what the
\* mirror held when the sync was entered: nothing changed upstream since.
RerunWithoutChanges(s) ==
    /\ sy[s].pc = "put"
    /\ sy[s].mode = "incremental"
    /\ ItemsOf(sy[s].before.items) = MirrorOf(upstream)

\* C24: an incremental sync over a mirror that agrees with upstream, with no
\* upstream change during the sync, reports newItems = 0 and updatedItems = 0
\* and saves the mirror it found; and in every update pass an item is counted
\* as updated exactly when the invocation already held it with another
\* updatedAt.
C24_RerunReportsNothing ==
    /\ [](\A s \in Procs :
            RerunWithoutChanges(s)
            => /\ sy[s].newItems = 0
               /\ sy[s].updatedItems = 0
               /\ sy[s].items = ItemsOf(sy[s].before.items)
               /\ "putItems" \in sy[s].ops => kvItems = sy[s].before.items)
    /\ [][\A s \in Procs : CountsUpdated(s)]_vars

\* The re-run has put its mirror, and a pull request of the mirror lies within
\* the overlap window.
C24_Witness ==
    \E s \in Procs :
        /\ RerunWithoutChanges(s)
        /\ "putItems" \in sy[s].ops
        /\ \E n \in 1..Len(upstream) :
               /\ upstream[n].type = "pr"
               /\ upstream[n].updatedAt >= sy[s].since

\* C25: after a successful sync, full or incremental, the stored SyncMetadata
\* describes the item mirror stored with it: highestNumber is the highest
\* item number, oldestDate the date of the earliest createdAt, issueCount and
\* prCount the numbers of issues and of pull requests, and their sum the
\* number of stored items (the totalItems the sync reports).
C25_MetaRecomputedFromItems ==
    \A s \in Procs :
        Settled(s, "ok")
        => /\ kvMeta.exists /\ kvItems.exists
           /\ kvMeta.highestNumber \in DOMAIN Mirror \cup {0}
           /\ \A n \in DOMAIN Mirror :
                  /\ n <= kvMeta.highestNumber
                  /\ kvMeta.oldestDate <= DateStr(Mirror[n].createdAt)
           /\ DOMAIN Mirror # {}
              => \E n \in DOMAIN Mirror :
                     /\ kvMeta.oldestDate = DateStr(Mirror[n].createdAt)
                     /\ \A o \in DOMAIN Mirror :
                            Mirror[n].createdAt <= Mirror[o].createdAt
           /\ kvMeta.issueCount
                  = Cardinality({n \in DOMAIN Mirror : Mirror[n].type = "issue"})
           /\ kvMeta.prCount
                  = Cardinality({n \in DOMAIN Mirror : Mirror[n].type = "pr"})
           /\ kvMeta.issueCount + kvMeta.prCount = Cardinality(DOMAIN Mirror)

\* An incremental sync has returned whose mirror holds issues and a pull
\* request, created on two days.
C25_Witness ==
    \E s \in Procs :
        /\ Settled(s, "ok") /\ sy[s].mode = "incremental"
        /\ kvMeta.exists /\ kvMeta.prCount > 0 /\ kvMeta.issueCount > 0
        /\ \E n \in DOMAIN Mirror :
               DateStr(Mirror[n].createdAt) > kvMeta.oldestDate

\* No sync with force set is under way.
NoForceSync == \A s \in Procs : Running(sy[s]) => ~sy[s].force

\* C26: syncs that do not overlap and are not forced never delete a mirrored
\* item: no step taken while no force sync is under way removes an item
\* number from the stored mirror, removes the stored SyncMetadata or lowers
\* its highestNumber.
C26_ItemsNeverDeleted ==
    [][NoForceSync
       => /\ DOMAIN Mirror \subseteq DOMAIN ItemsOf(kvItems')
          /\ kvItems.exists => kvItems'.exists
          /\ kvMeta.exists
             => /\ kvMeta'.exists
                /\ kvMeta'.highestNumber >= kvMeta.highestNumber]_vars

\* A second sync without force has returned, after upstream had grown: the
\* mirror holds the items it held at first, and more.
C26_Witness ==
    /\ sy[1].pc = "done"
    /\ Settled(2, "ok") /\ ~sy[2].force /\ sy[2].mode = "incremental"
    /\ DOMAIN Mirror = 1..Len(upstream)
    /\ Len(upstream) > PageSize
    /\ kvMeta.highestNumber = Len(upstream)
\* C27: in every mirrored item, the state merged occurs only in a pull
\* request and an issue's state is open or closed; a pull request whose node
\* has the merged flag set is stored as merged, any other as its raw state
\* in lower case.
C27_StoredStateFollowsNode ==
    \A n \in DOMAIN Mirror :
        LET item == Mirror[n]
            node == Node(n)
        IN  /\ item.state = "merged" => item.type = "pr"
            /\ item.type = "issue" => item.state \in {"open", "closed"}
            /\ item.type = "pr" =>
                  item.state = IF node.merged THEN "merged"
                               ELSE LowerCase(node.state)

\* The mirror holds a merged pull request, one closed without a merge, and
\* a closed issue.
C27_Witness ==
    \E n, m, k \in DOMAIN Mirror :
        /\ Mirror[n].state = "merged" /\ Node(n).merged
        /\ Mirror[m].type = "pr" /\ Mirror[m].state = "closed"
        /\ Mirror[k].type = "issue" /\ Mirror[k].state = "closed"

\* The read endpoint answers in this step, with a response of the handler.
Answers(p, result) == ci[p].pc = "idle" /\ ci'[p].result = result

\* The stored items a query for the type is about.
MirrorOfType(type) ==
    {n \in DOMAIN Mirror : Mirror[n].type = IF type = "issues" THEN "issue" ELSE "pr"}

\* The item was created by the end of the day and, if it has been closed,
\* was closed after the end of the day.
OpenAtEndOf(item, day) ==
    /\ DateStr(item.createdAt) <= day
    /\ item.closedAt.set => DateStr(item.closedAt.at) > day

\* C28: every entry of the daily open-count series counts the items of the
\* queried type that were created by the end of its day and are not closed
\* or were closed after the end of its day; so an item created on one day and
\* closed four days later is counted two days after its creation and is not
\* counted on the day it was closed.
C28_OpenCountRule ==
    [][\A p \in Procs :
         Answers(p, "github-items") /\ ci'[p].data.status = 200 =>
             LET response == ci'[p].data
             IN  \A i \in 1..Len(response.data) :
                     response.data[i].openCount =
                         Cardinality({n \in MirrorOfType(response.type) :
                                         OpenAtEndOf(Mirror[n], response.data[i].date)})]_vars

\* A series over the issues, one of which was created on OpenDay and closed
\* four days later: the entry two days after OpenDay counts it with every
\* other issue, the entry of the day it was closed does not count it.
C28_Witness ==
    /\ ci[1].result = "github-items"
    /\ ci[1].data.status = 200
    /\ ci[1].data.type = "issues"
    /\ \E n \in MirrorOfType("issues") :
         /\ DateStr(Mirror[n].createdAt) = OpenDay
         /\ Mirror[n].closedAt = Time(ParseDate(OpenDay + 4) + n)
         /\ Cardinality({m \in MirrorOfType("issues") : Mirror[m].closedAt.set}) = 1
    /\ \E i, j \in 1..Len(ci[1].data.data) :
         /\ ci[1].data.data[i].date = OpenDay + 2
         /\ ci[1].data.data[i].openCount = ci[1].data.totalItems
         /\ ci[1].data.data[j].date = OpenDay + 4
         /\ ci[1].data.data[j].openCount = ci[1].data.totalItems - 1
         /\ ci[1].data.totalItems > 1

\* How many of the commits the author has.
CommitsOf(commits, author) ==
    Cardinality({i \in 1..Len(commits) : commits[i].author = author})

\* The commits of the k authors with the most commits.
RECURSIVE TopCommits(_, _, _)
TopCommits(commits, among, k) ==
    IF k = 0 \/ among = {} THEN 0
    ELSE LET top == CHOOSE a \in among :
                        \A b \in among : CommitsOf(commits, b) <= CommitsOf(commits, a)
         IN  CommitsOf(commits, top) + TopCommits(commits, among \ {top}, k - 1)

\* k is the least number of top authors that hold at least half of the
\* counted commits: none where there are no commits.
LeastForHalf(commits, counted, k) ==
    LET authors == {commits[i].author : i \in 1..Len(commits)} \ {NoAuthor}
    IN  IF Len(commits) = 0 THEN k = 0
        ELSE /\ k \in 1..Cardinality(authors)
             /\ 2 * TopCommits(commits, authors, k) >= counted
             /\ 2 * TopCommits(commits, authors, k - 1) < counted

\* C29: for every list of fetched commits the bus factor is the least number
\* k of top contributors whose share of the counted commits reaches 50%: the
\* top k authors hold at least half of them and the top k - 1 do not, and no
\* commits give 0.  The counted commits are taken to be either all the
\* fetched ones or those that have an author, whichever suits the result.
C29_BusFactorIsLeastForHalf ==
    \A p \in Procs :
        ci[p].result = "bus-factor" =>
            LET commits == ci[p].data.commits
                attributed == Cardinality({i \in 1..Len(commits) :
                                              commits[i].author # NoAuthor})
            IN  \/ LeastForHalf(commits, Len(commits), ci[p].data.busFactor)
                \/ LeastForHalf(commits, attributed, ci[p].data.busFactor)

\* The numbers of the items a triage list holds.
Listed(list) == {list[i].number : i \in 1..Len(list)}

\* The item carries one of the labels, whatever the case of the letters.
Labelled(item, names) ==
    \E l \in item.labels : \E name \in names : LowerCase(l) = LowerCase(name)

\* C30: in every triage response no issue is in both awaitingDev and
\* untriaged; every listed item is an open issue of the mirror; an open issue
\* with an awaiting label is not in untriaged and, where the response
\* categorizes (the store has data), is counted in totalAwaitingDev and is in
\* awaitingDev unless that list is full; and an untriaged issue has neither an
\* awaiting nor a blocking label.
C30_TriageIsExclusive ==
    [][\A p \in Procs :
         Answers(p, "issue-triage") =>
             LET response == ci'[p].data
                 untriaged == Listed(response.untriaged)
                 awaitingDev == Listed(response.awaitingDev)
                 awaiting == {n \in DOMAIN Mirror :
                                 /\ Mirror[n].type = "issue"
                                 /\ Mirror[n].state = "open"
                                 /\ Labelled(Mirror[n], AWAITING_DEV_LABELS)}
             IN  /\ untriaged \cap awaitingDev = {}
                 /\ \A list \in {response.untriaged, response.awaitingDev} :
                       \A i \in 1..Len(list) :
                           /\ list[i].number \in DOMAIN Mirror
                           /\ list[i] = Mirror[list[i].number]
                           /\ list[i].type = "issue"
                           /\ list[i].state = "open"
                 /\ awaiting \cap untriaged = {}
                 /\ awaitingDev \subseteq awaiting
                 /\ "needsSync" \notin DOMAIN response =>
                       /\ response.totalAwaitingDev = Cardinality(awaiting)
                       /\ \/ awaitingDev = awaiting
                          \/ Len(response.awaitingDev) = TriageLimit
                 /\ \A n \in untriaged :
                       /\ ~Labelled(Mirror[n], AWAITING_DEV_LABELS)
                       /\ ~Labelled(Mirror[n], BLOCKING_LABELS)]_vars

\* A triage response whose awaitingDev holds an issue with a label of both
\* lists, spelt in capitals, and whose untriaged holds an issue, while the
\* mirror holds an item with an awaiting label that is not an open issue.
C30_Witness ==
    /\ ci[1].result = "issue-triage"
    /\ "needsSync" \notin DOMAIN ci[1].data
    /\ \E i \in 1..Len(ci[1].data.awaitingDev) :
         /\ Labelled(ci[1].data.awaitingDev[i], BLOCKING_LABELS)
         /\ ci[1].data.awaitingDev[i].labels \cap AWAITING_DEV_LABELS = {}
    /\ Len(ci[1].data.untriaged) > 0
    /\ \E n \in DOMAIN Mirror :
         /\ Labelled(Mirror[n], AWAITING_DEV_LABELS)
         /\ Mirror[n].type # "issue" \/ Mirror[n].state # "open"
         /\ n \notin Listed(ci[1].data.awaitingDev)

\* The read endpoints over the mirror.
ItemReads == {"github-items", "issue-label-stats", "issue-triage", "pr-health"}

\* C31: whenever the metadata is absent or the mirror is empty, an item read
\* endpoint (open counts, label stats, triage, PR health) that reads the store
\* answers with a structured response that has needsSync = true, not with an
\* internal error, and the request starts no sync, makes no upstream request
\* and writes nothing to the store.
C31_NoDataAnswersNeedsSync ==
    [][\A p \in Procs : \A read \in ItemReads :
         ( /\ Answers(p, read)
           /\ ~kvMeta.exists \/ DOMAIN Mirror = {}
           /\ ci'[p].data.status # 400 )
         => /\ ci'[p].data.status \in {200, 404}
            /\ "needsSync" \in DOMAIN ci'[p].data
            /\ ci'[p].data.needsSync
            /\ UNCHANGED <<upstream, failures, sy>>
            /\ UNCHANGED <<kvItems, kvMeta, kvIndex, kvDaily, kvCurrent>>]_vars

\* PR health is asked after a force sync that failed, and answers needsSync.
C31_Witness ==
    /\ ci[1].result = "pr-health"
    /\ ci[1].data.needsSync
    /\ sy[1].pc = "done" /\ sy[1].result = "error" /\ sy[1].force
    /\ upstream # <<>>

\* The type of item a new-items pass is over.
PassType(pc) == IF pc = "newIssues" THEN "issue" ELSE "pr"

\* The invocation examines a page of its new-items pass in this step.
NewItemsPage(s) ==
    /\ sy[s].pc \in {"newIssues", "newPRs"}
    /\ sy'[s].pc # "done"
    /\ sy'[s].pc # sy[s].pc \/ sy'[s].cursor # sy[s].cursor

\* The consecutive known items seen when the i-th node of the page has been
\* examined: a node is known if the invocation's items held its number
\* before the node was examined.
RECURSIVE KnownRun(_, _, _)
KnownRun(s, nodes, i) ==
    IF i = 0 THEN sy[s].consecutiveKnown
    ELSE IF nodes[i].number \in DOMAIN sy[s].items
                                 \cup {nodes[j].number : j \in 1..(i - 1)}
         THEN KnownRun(s, nodes, i - 1) + 1
         ELSE 0

Occurrences(s, x) == Cardinality({i \in 1..Len(s) : s[i] = x})

\* C33: for every gap getMissingDateRanges returned (leading, internal or
\* trailing), the backfill fetches the runs of every calendar day from the
\* day of the gap's start through the day of its end, each exactly once,
\* whatever the time of day at which the gaps were computed.
C33_BackfillCoversEveryGapDay ==
    \A p \in Procs :
        (ci[p].pc = "done" /\ ci[p].backfill /\ ci[p].result = "ok" /\ failures = 0)
        => \A g \in 1..Len(ci[p].gaps) :
               \A d \in DateStr(ci[p].gaps[g].start) .. DateStr(ci[p].gaps[g].end) :
                   Occurrences(ci[p].fetched, d) = 1

\* The invocation returns its result in this step.
Returns(s) == sy[s].pc = "put" /\ sy'[s].pc = "done" /\ sy'[s].result = "ok"

\* C34: for every sync without force that succeeds, the reported totalItems
\* equals the number of items the mirror held before the sync plus the
\* reported newItems: every item the sync wrote for the first time, in the
\* new-items pass or in the updated-items pass, is counted as new.
C34_NewItemsAccountForGrowth ==
    [][\A s \in Procs :
         Returns(s) /\ ~sy[s].force =>
             Cardinality(DOMAIN sy[s].items) =
                 Cardinality(DOMAIN ItemsOf(sy[s].before.items)) + sy[s].newItems]_vars

\* Invocation s lands its put of the item mirror in this step, over the
\* mirror the other invocation t put while the two overlapped, neither of
\* them forced.  No put of the mirror follows this one.
OverwritesOverlapping(s, t) ==
    /\ s # t
    /\ sy[s].pc = "put" /\ "putItems" \in sy[s].pend
    /\ sy'[s] # sy[s] /\ "putItems" \notin sy'[s].pend
    /\ ~sy[s].force /\ ~sy[t].force
    /\ ~sy[s].alone
    /\ \/ "putItems" \in sy[t].ops
       \/ sy[t].pc = "done" /\ sy[t].result = "ok"

\* C35: when two syncs without force overlap and both persist their items,
\* the later put of the mirror keeps every item number the earlier one
\* stored, with an updatedAt no older: the mirror that stays once both have
\* returned holds what either invocation persisted.
C35_LaterWriteKeepsEarlierItems ==
    [][\A s, t \in Procs :
         OverwritesOverlapping(s, t) =>
             \A n \in DOMAIN Mirror :
                 /\ n \in DOMAIN ItemsOf(kvItems')
                 /\ ItemsOf(kvItems')[n].updatedAt >= Mirror[n].updatedAt]_vars

\* The requests of the invocation that are in flight.
InFlight(r) == IF r.batch.exists THEN r.batch.inFlight ELSE {}

\* The statistics counted over the first n runs of the invocation's list,
\* taken in the order of the list.
CountedInOrder(r, n) ==
    ProcessRuns(<<>>, SubSeq(RunListOf(r), 1, n), 1,
                IF r.backfill THEN 0 ELSE SevenDaysAgo(now))

\* C36: in a CI sync and in a backfill day, at most batchSize job-list
\* requests are in flight; requests are issued only when none is in flight;
\* and in whatever order the requests of a batch settled, the statistics
\* after the batch are those of the runs up to its last one taken in the
\* order of the list, recentFailures included, and so are the statistics
\* the invocation ends with.
C36_BatchesOfEight ==
    /\ [](\A p \in Procs : Cardinality(InFlight(ci[p])) <= batchSize)
    /\ [][\A p \in Procs :
             ~(InFlight(ci'[p]) \subseteq InFlight(ci[p])) => InFlight(ci[p]) = {}]_vars
    /\ [][\A p \in Procs :
             ci[p].pc = "await" /\ ci'[p].pc = "batch" =>
                 ci'[p].data.jobStats =
                     CountedInOrder(ci[p], ci[p].batch.i + Len(ci[p].batch.settled))]_vars
    /\ [](\A p \in Procs :
             ci[p].pc = "done" /\ ci[p].batch.exists =>
                 ci[p].data = IF ci[p].backfill
                              THEN Snapshot(ci[p].dateStr, "backfill",
                                            BackfillJobs(RunListOf(ci[p])))
                              ELSE ProcessedData(RunListOf(ci[p]), now))

\* Every request of a full batch has settled, the last of the batch first
\* and the first of the batch last, and more runs are to follow.
C36_Witness ==
    \E p \in Procs :
        /\ ci[p].pc = "await" /\ ci[p].batch.inFlight = {}
        /\ Len(ci[p].batch.settled) = batchSize
        /\ ci[p].batch.settled[1] = ci[p].batch.i + batchSize
        /\ ci[p].batch.settled[batchSize] = ci[p].batch.i + 1
        /\ ci[p].batch.i + batchSize < Len(RunListOf(ci[p]))

\* C37: the series of a query answered with the daily open counts holds one
\* entry for each calendar day from startDate through endDate, in ascending
\* order of date; a query whose startDate is its endDate gets one entry.
C37_OneEntryPerDayOfTheRange ==
    \A p \in Procs :
        ci[p].result = "github-items" /\ ci[p].data.status = 200 =>
            LET series == ci[p].data.data
                range == ci[p].data.dateRange
            IN  /\ Len(series) = range.end - range.start + 1
                /\ \A i \in 1..Len(series) : series[i].date = range.start + i - 1

\* C38: a backfill over the gaps getMissingDateRanges returned takes up no
\* day that was in the date index when the gaps were computed, and no step
\* of it writes or changes the daily snapshot of such a day: the snapshots
\* of the indexed days, that of the regular sync included, stay as they are.
C38_BackfillSparesIndexedDays ==
    [][\A p \in Procs :
         ci[p].pc = "day" /\ ci'[p] # ci[p] =>
             /\ DateStr(ci[p].currentDate) \notin ci[p].known
             /\ \A d \in ci[p].known :
                    /\ d \in DOMAIN kvDaily <=> d \in DOMAIN kvDaily'
                    /\ d \in DOMAIN kvDaily => kvDaily'[d] = kvDaily[d]]_vars

\* A backfill has come to its end after it wrote the snapshot of a day,
\* the index having held several dates with more than one gap about them,
\* and the snapshot of an indexed day is that of the regular sync.
C38_Witness ==
    \E p \in Procs :
        /\ ci[p].pc = "done" /\ ci[p].backfill /\ ci[p].result = "ok"
        /\ Cardinality(ci[p].known) > 1
        /\ Len(ci[p].gaps) > 1
        /\ \E d \in DOMAIN kvDaily : d \notin ci[p].known /\ kvDaily[d].by = "backfill"
        /\ \E d \in ci[p].known : d \in DOMAIN kvDaily /\ kvDaily[d].by = "sync"

\* scheduled() has been invoked.
Scheduled(p) == ci[p].pc # "idle"

\* The scheduled invocation has entered fetchAndStoreCIData.
RanCISync(p) ==
    \/ ci[p].pc \in {"runs", "indexGet", "indexPut", "current"}
    \/ ci[p].pc = "done" /\ ci[p].result \in {"ok", "error"}

\* The scheduled invocation has entered syncGitHubItems, without force.
RanItemsSync(p) == sy[p].pc # "idle" /\ ~sy[p].force

\* C39: a scheduled invocation runs the CI data sync if and only if the UTC
\* hour of its scheduled time is 6; it runs the items sync, without force,
\* whatever the hour; and it does so as well when its CI data sync failed.
C39_ScheduledSyncs ==
    \A p \in Procs :
        /\ [](Scheduled(p) => (RanCISync(p) <=> getUTCHours(now) = 6))
        /\ [](sy[p].pc # "idle" => ~sy[p].force)
        /\ Scheduled(p) ~> RanItemsSync(p)
        /\ (Scheduled(p) /\ ci[p].result = "error") ~> RanItemsSync(p)

\* The invocation of 6 UTC whose CI data sync failed has run its items sync.
C39_Witness ==
    \E p \in Procs :
        /\ getUTCHours(now) = 6
        /\ ci[p].pc = "done" /\ ci[p].result = "error"
        /\ sy[p].pc = "done" /\ sy[p].result = "ok"

====
